---- MODULE Spec2Model ----
(***************************************************************************)
(* Response decoding of services/geminiService.ts: cleanJson, jsonReviver  *)
(* and the operations that call them.                                      *)
(*                                                                         *)
(* A text is a sequence of one-character strings.  Positions are 1-based;  *)
(* JavaScript's "not found" index -1 is the position 0 here.               *)
(* The file holds three revisions of the service: lines 1-207 (rev 1),     *)
(* lines 208-553 (rev 2, the one App imports analyzeCodeRepository from)   *)
(* and lines 555-733 (rev 3).                                              *)
(***************************************************************************)
EXTENDS Integers, Sequences, FiniteSets, TLC

Digit == {"0", "1", "2", "3", "4", "5", "6", "7", "8", "9"}

\* String.prototype.trim's white space, as far as the inputs use it.
WhiteSpace == {" ", "\n", "\t", "\r"}

\* The backtick character (no TLA+ string can hold a backtick itself).
BackTick == "<backtick>"

FenceJson == <<BackTick, BackTick, BackTick, "j", "s", "o", "n">>

Fence == <<BackTick, BackTick, BackTick>>

------------------------------------------------------------------------------
(* String primitives of the JavaScript runtime.                             *)

\* p occurs in s starting at position i.
MatchesAt(s, i, p) ==
  /\ i >= 1
  /\ i + Len(p) - 1 <= Len(s)
  /\ \A k \in 1..Len(p) : s[i + k - 1] = p[k]

Contains(s, p) == \E i \in 1..Len(s) : MatchesAt(s, i, p)

RECURSIVE RemoveAllFrom(_, _, _)
RemoveAllFrom(s, i, p) ==
  IF i > Len(s) THEN <<>>
  ELSE IF MatchesAt(s, i, p) THEN RemoveAllFrom(s, i + Len(p), p)
  ELSE <<s[i]>> \o RemoveAllFrom(s, i + 1, p)

\* s.replace(/p/g, "") for a literal pattern p: leftmost, non-overlapping.
RemoveAll(s, p) == RemoveAllFrom(s, 1, p)

\* s.indexOf(c), 0 when c does not occur.
indexOf(s, c) ==
  IF \E i \in 1..Len(s) : s[i] = c
  THEN CHOOSE i \in 1..Len(s) : s[i] = c /\ \A k \in 1..(i - 1) : s[k] # c
  ELSE 0

\* s.lastIndexOf(c) with the first occurrence in place of the last.
lastIndexOfFirst(s, c) == indexOf(s, c)

\* s.lastIndexOf(c), 0 when c does not occur.
lastIndexOf(s, c) ==
  IF \E i \in 1..Len(s) : s[i] = c
  THEN CHOOSE i \in 1..Len(s) : s[i] = c /\ \A k \in (i + 1)..Len(s) : s[k] # c
  ELSE 0

\* s.substring(a - 1, b) of JavaScript: positions a..b inclusive.
substring(s, a, b) == SubSeq(s, a, b)

RECURSIVE SkipWhite(_, _)
\* First position >= i of s that holds no white space (Len(s) + 1 if none).
SkipWhite(s, i) ==
  IF i <= Len(s) /\ s[i] \in WhiteSpace THEN SkipWhite(s, i + 1) ELSE i

RECURSIVE SkipWhiteBack(_, _)
\* Last position <= i of s that holds no white space (0 if none).
SkipWhiteBack(s, i) ==
  IF i >= 1 /\ s[i] \in WhiteSpace THEN SkipWhiteBack(s, i - 1) ELSE i

\* s.trim()
trim(s) == SubSeq(s, SkipWhite(s, 1), SkipWhiteBack(s, Len(s)))

RECURSIVE DigitRunEnd(_, _)
\* Position just after the maximal run of digits of s that starts at i.
DigitRunEnd(s, i) ==
  IF i <= Len(s) /\ s[i] \in Digit THEN DigitRunEnd(s, i + 1) ELSE i

------------------------------------------------------------------------------
(* cleanJson, revision 2 (lines 222-250), statement by statement.           *)

\* let cleaned = text.replace(/```json/g, "").replace(/```/g, "");
StripFences(text) == RemoveAll(RemoveAll(text, FenceJson), Fence)

\* Lines 227-232 left out: the text is parsed as fence stripping leaves it.
LocateSpanNone(cleaned) == cleaned

\* The if of lines 230-232 with lastIndexOf taken as the first '}'.
LocateSpanFirstClose(cleaned) ==
  LET firstBrace == indexOf(cleaned, "{")
      lastBrace  == lastIndexOfFirst(cleaned, "}")
  IN  IF firstBrace # 0 /\ lastBrace # 0 /\ lastBrace > firstBrace
      THEN substring(cleaned, firstBrace, lastBrace)
      ELSE cleaned

\* firstBrace / lastBrace and the if of lines 227-232.
LocateSpan(cleaned) ==
  LET firstBrace == indexOf(cleaned, "{")
      lastBrace  == lastIndexOf(cleaned, "}")
  IN  IF firstBrace # 0 /\ lastBrace # 0 /\ lastBrace > firstBrace
      THEN substring(cleaned, firstBrace, lastBrace)
      ELSE cleaned

\* Number of fractional digits /(\d+\.\d{6})\d+/ keeps.
KeptFractionDigits == 6

RECURSIVE TruncateFrom(_, _, _)
\* Scan of s.replace(/(\d+\.\d{n})\d+/g, '$1') from position i.  \d+ is greedy
\* and a shorter integer run cannot be followed by '.', so a match at i takes
\* the whole digit run, the dot, and a fraction run of more than n digits.
TruncateFrom(s, i, n) ==
  IF i > Len(s) THEN <<>>
  ELSE LET j == DigitRunEnd(s, i)
           k == DigitRunEnd(s, j + 1)
       IN  IF j > i /\ j <= Len(s) /\ s[j] = "." /\ k - (j + 1) > n
           THEN SubSeq(s, i, j + n) \o TruncateFrom(s, k, n)
           ELSE <<s[i]>> \o TruncateFrom(s, i + 1, n)

\* The truncation of line 237 rounding nothing but keeping one digit less.
TruncateDecimalsShort(s) == TruncateFrom(s, 1, KeptFractionDigits - 1)

RECURSIVE TruncateOneFrom(_, _, _)
\* The scan of /(\d+\.\d{6})\d/g: one digit dropped after the kept ones.
TruncateOneFrom(s, i, n) ==
  IF i > Len(s) THEN <<>>
  ELSE LET j == DigitRunEnd(s, i)
           k == DigitRunEnd(s, j + 1)
       IN  IF j > i /\ j <= Len(s) /\ s[j] = "." /\ k - (j + 1) > n
           THEN SubSeq(s, i, j + n) \o TruncateOneFrom(s, j + n + 2, n)
           ELSE <<s[i]>> \o TruncateOneFrom(s, i + 1, n)

\* The truncation of line 237 without the + of its trailing \d+.
TruncateDecimalsOneDigit(s) == TruncateOneFrom(s, 1, KeptFractionDigits)

\* cleaned.replace(/(\d+\.\d{6})\d+/g, '$1')
TruncateDecimals(s) == TruncateFrom(s, 1, KeptFractionDigits)

\* Fractional digits the callback of lines 241-247 keeps: substring(0, dotIndex + 3).
KeptMantissaDigits == 2

Min(a, b) == IF a < b THEN a ELSE b

RECURSIVE RewriteFrom(_, _, _)
\* Scan of s.replace(/(\d+\.\d+)[eE][+-]?\d+/g, callback) from position i.
\* A match at i: digit run i..j-1, '.', digit run j+1..k-1, e or E at k,
\* an optional sign, a digit run up to m-1.  The callback returns the
\* mantissa up to and including n characters after the dot.
RewriteFrom(s, i, n) ==
  IF i > Len(s) THEN <<>>
  ELSE LET j == DigitRunEnd(s, i)
           k == DigitRunEnd(s, j + 1)
           x == IF k + 1 <= Len(s) /\ s[k + 1] \in {"+", "-"} THEN k + 2 ELSE k + 1
           m == DigitRunEnd(s, x)
       IN  IF /\ j > i /\ j <= Len(s) /\ s[j] = "."
              /\ k > j + 1 /\ k <= Len(s) /\ s[k] \in {"e", "E"}
              /\ m > x
           THEN SubSeq(s, i, Min(j + n, k - 1)) \o RewriteFrom(s, m, n)
           ELSE <<s[i]>> \o RewriteFrom(s, i + 1, n)

\* The rewrite of lines 241-247 returning the whole mantissa.
RewriteScientificWholeMantissa(s) == RewriteFrom(s, 1, Len(s))

\* cleaned.replace(/(\d+\.\d+)[eE][+-]?\d+/g, (match, numberPart) => ...)
RewriteScientific(s) == RewriteFrom(s, 1, KeptMantissaDigits)

\* Lines 237-247: the two numeric rewrites in the order the code applies them.
NumericNormalizer(s) == RewriteScientific(TruncateDecimals(s))

\* cleanJson of revision 1 (lines 15-28).
cleanJsonRev1(text) == trim(LocateSpan(StripFences(text)))

\* cleanJson of revision 2 (lines 222-250).
cleanJsonRev2(text) == trim(NumericNormalizer(LocateSpan(StripFences(text))))

\* text.replace(/^```json\s*/, ''): a leading marker and the white space after it.
StripLeading(s, p) ==
  IF MatchesAt(s, 1, p) THEN SubSeq(s, SkipWhite(s, Len(p) + 1), Len(s)) ELSE s

\* s.replace(/\s*```$/, ''): a trailing marker and the white space before it.
StripTrailing(s, p) ==
  IF Len(s) >= Len(p) /\ MatchesAt(s, Len(s) - Len(p) + 1, p)
  THEN SubSeq(s, 1, SkipWhiteBack(s, Len(s) - Len(p)))
  ELSE s

\* The three anchored replaces of revision 3 (line 570).
StripFencesAnchored(text) ==
  StripTrailing(StripLeading(StripLeading(text, FenceJson), Fence), Fence)

\* cleanJson of revision 3 (lines 569-571).
cleanJsonRev3(text) == trim(StripFencesAnchored(text))

------------------------------------------------------------------------------
(* JSON.parse of the runtime (called at lines 82, 313, 396, 495, 622, 691). *)
(* A parsed tree is kept as the sequence of its tokens: brackets, colons,   *)
(* commas, and leaves [t |-> kind, s |-> text].  A number leaf holds the    *)
(* canonical decimal text of its value, so 5.0, 5.00 and 0.5e1 are one leaf.*)
(* Values are exact decimals: the rounding error of a double and the      *)
(* overflow of a large exponent to Infinity are left out, and -0 is 0.      *)

Tok(t, s) == [t |-> t, s |-> s]

ErrTok == Tok("error", <<>>)

Punct == {"{", "}", "[", "]", ":", ","}

Quote == "\""

DigitChars == <<"0", "1", "2", "3", "4", "5", "6", "7", "8", "9">>

DigitValue(d) == (CHOOSE i \in 1..Len(DigitChars) : DigitChars[i] = d) - 1

RECURSIVE DigitsToNat(_)
DigitsToNat(ds) ==
  IF ds = <<>> THEN 0
  ELSE 10 * DigitsToNat(SubSeq(ds, 1, Len(ds) - 1)) + DigitValue(ds[Len(ds)])

Zeros(n) == [i \in 1..n |-> "0"]

RECURSIVE StripLeadingZeros(_)
StripLeadingZeros(ds) ==
  IF ds # <<>> /\ ds[1] = "0" THEN StripLeadingZeros(Tail(ds)) ELSE ds

RECURSIVE StripTrailingZeros(_)
StripTrailingZeros(ds) ==
  IF ds # <<>> /\ ds[Len(ds)] = "0"
  THEN StripTrailingZeros(SubSeq(ds, 1, Len(ds) - 1))
  ELSE ds

\* The decimal neg? ip.fp as a number leaf: no leading or trailing zeros, and
\* zero without a sign (-0 and 0 are the same leaf).
NumTok(neg, ip, fp) ==
  LET i == StripLeadingZeros(ip)
      f == StripTrailingZeros(fp)
      zero == i = <<>> /\ f = <<>>
  IN  Tok("num",
          (IF neg /\ ~zero THEN <<"-">> ELSE <<>>)
          \o (IF i = <<>> THEN <<"0">> ELSE i)
          \o (IF f = <<>> THEN <<>> ELSE <<".">> \o f))

\* The value ip.fp x 10^ex as integer and fraction digits.
ShiftPoint(ip, fp, ex) ==
  LET all == ip \o fp
      p   == Len(ip) + ex
  IN  IF p <= 0 THEN [ip |-> <<>>, fp |-> Zeros(0 - p) \o all]
      ELSE IF p >= Len(all) THEN [ip |-> all \o Zeros(p - Len(all)), fp |-> <<>>]
      ELSE [ip |-> SubSeq(all, 1, p), fp |-> SubSeq(all, p + 1, Len(all))]

(* Definitions below take the positions they have found as parameters:   *)
(* each is the next step of one scan over the text.                      *)

\* The number leaf for sign, integer digits, fraction digits and exponent.
NumberValue(neg, ip, fp, ex) ==
  NumTok(neg, ShiftPoint(ip, fp, ex).ip, ShiftPoint(ip, fp, ex).fp)

\* The number read: its integer digits are s[a..intEnd-1], its fraction
\* digits s[intEnd+1..fracEnd-1] (none when fracEnd = intEnd), its exponent
\* digits s[x..end-1] (none when end = fracEnd).
LexNumberRead(s, i, a, intEnd, fracEnd, x, end) ==
  IF intEnd > a
  THEN [ok  |-> TRUE,
        end |-> end,
        tok |-> NumberValue(s[i] = "-",
                            SubSeq(s, a, intEnd - 1),
                            SubSeq(s, intEnd + 1, fracEnd - 1),
                            IF end > fracEnd
                            THEN (IF s[x - 1] = "-" THEN -1 ELSE 1)
                                   * DigitsToNat(SubSeq(s, x, end - 1))
                            ELSE 0)]
  ELSE [ok |-> FALSE, end |-> i, tok |-> ErrTok]

\* ([eE] [+-]? [0-9]+)? : x is where the exponent digits would start.
LexExponent(s, i, a, intEnd, fracEnd, x) ==
  LexNumberRead(s, i, a, intEnd, fracEnd, x,
                IF /\ fracEnd <= Len(s)
                   /\ s[fracEnd] \in {"e", "E"}
                   /\ DigitRunEnd(s, x) > x
                THEN DigitRunEnd(s, x)
                ELSE fracEnd)

LexFraction(s, i, a, intEnd, fracEnd) ==
  LexExponent(s, i, a, intEnd, fracEnd,
              IF fracEnd + 1 <= Len(s) /\ s[fracEnd + 1] \in {"+", "-"}
              THEN fracEnd + 2
              ELSE fracEnd + 1)

\* (. [0-9]+)?
LexInteger(s, i, a, intEnd) ==
  LexFraction(s, i, a, intEnd,
              IF /\ intEnd <= Len(s)
                 /\ s[intEnd] = "."
                 /\ DigitRunEnd(s, intEnd + 1) > intEnd + 1
              THEN DigitRunEnd(s, intEnd + 1)
              ELSE intEnd)

\* (0 | [1-9][0-9]*)
LexSign(s, i, a) ==
  LexInteger(s, i, a, IF a <= Len(s) /\ s[a] = "0" THEN a + 1 ELSE DigitRunEnd(s, a))

\* The JSON number that starts at position i of s, if any:
\* -? (0 | [1-9][0-9]*) (. [0-9]+)? ([eE] [+-]? [0-9]+)?
LexNumber(s, i) == LexSign(s, i, IF s[i] = "-" THEN i + 1 ELSE i)

RECURSIVE StringEnd(_, _)
\* Position of the quote that closes a string whose content starts at i; 0 if
\* the string is unterminated or holds a raw control character.
StringEnd(s, i) ==
  IF i > Len(s) THEN 0
  ELSE IF s[i] = Quote THEN i
  ELSE IF s[i] \in {"\n", "\t", "\r"} THEN 0
  ELSE IF s[i] = "\\" THEN StringEnd(s, i + 2)
  ELSE StringEnd(s, i + 1)

RECURSIVE Lex(_, _)

\* A string whose closing quote is at q (0: there is none).
LexString(s, b, q) ==
  IF q = 0 THEN <<ErrTok>>
  ELSE <<Tok("str", SubSeq(s, b + 1, q - 1))>> \o Lex(s, q + 1)

\* A number, n being what LexNumber read.
LexNumberAt(s, n) ==
  IF n.ok THEN <<n.tok>> \o Lex(s, n.end) ELSE <<ErrTok>>

\* The token that starts at the non-white position b.
LexAt(s, b) ==
  IF b > Len(s) THEN <<>>
  ELSE IF s[b] \in Punct THEN <<Tok(s[b], <<>>)>> \o Lex(s, b + 1)
  ELSE IF s[b] = Quote THEN LexString(s, b, StringEnd(s, b + 1))
  ELSE IF MatchesAt(s, b, <<"t", "r", "u", "e">>)
  THEN <<Tok("true", <<>>)>> \o Lex(s, b + 4)
  ELSE IF MatchesAt(s, b, <<"f", "a", "l", "s", "e">>)
  THEN <<Tok("false", <<>>)>> \o Lex(s, b + 5)
  ELSE IF MatchesAt(s, b, <<"n", "u", "l", "l">>)
  THEN <<Tok("null", <<>>)>> \o Lex(s, b + 4)
  ELSE IF s[b] = "-" \/ s[b] \in Digit THEN LexNumberAt(s, LexNumber(s, b))
  ELSE <<ErrTok>>

\* The tokens of s from position i on; ErrTok ends the sequence where no token starts.
Lex(s, i) == LexAt(s, SkipWhite(s, i))

Leaves == {"str", "num", "true", "false", "null"}

\* What the grammar expects once a value has ended inside the containers open.
AfterValue(open) == IF open = <<>> THEN "end" ELSE "commaOrClose"

Pop(open) == SubSeq(open, 1, Len(open) - 1)

RECURSIVE Accepts(_, _, _, _)
\* The tokens of t from position i on complete a JSON text, given what the
\* grammar expects next (st) and the brackets still open (innermost last).
Accepts(t, i, st, open) ==
  IF i > Len(t) THEN st = "end"
  ELSE LET k == t[i].t
           top == IF open = <<>> THEN "" ELSE open[Len(open)]
       IN  IF st \in {"value", "valueOrClose"} /\ k \in Leaves
           THEN Accepts(t, i + 1, AfterValue(open), open)
           ELSE IF st \in {"value", "valueOrClose"} /\ k = "{"
           THEN Accepts(t, i + 1, "keyOrClose", Append(open, "{"))
           ELSE IF st \in {"value", "valueOrClose"} /\ k = "["
           THEN Accepts(t, i + 1, "valueOrClose", Append(open, "["))
           ELSE IF st \in {"key", "keyOrClose"} /\ k = "str"
           THEN Accepts(t, i + 1, "colon", open)
           ELSE IF st = "colon" /\ k = ":"
           THEN Accepts(t, i + 1, "value", open)
           ELSE IF st = "commaOrClose" /\ k = ","
           THEN Accepts(t, i + 1, IF top = "{" THEN "key" ELSE "value", open)
           ELSE IF \/ st \in {"keyOrClose", "commaOrClose"} /\ k = "}" /\ top = "{"
                   \/ st \in {"valueOrClose", "commaOrClose"} /\ k = "]" /\ top = "["
           THEN Accepts(t, i + 1, AfterValue(Pop(open)), Pop(open))
           ELSE FALSE

\* The tree of the tokens t, or ok = FALSE where they are no JSON text.
ParseTokens(t) ==
  IF Accepts(t, 1, "value", <<>>)
  THEN [ok |-> TRUE, value |-> t]
  ELSE [ok |-> FALSE, value |-> <<>>]

\* JSON.parse(text) without a reviver: the tree, or ok = FALSE for a SyntaxError.
JSONparse(text) == ParseTokens(Lex(text, 1))

------------------------------------------------------------------------------
(* jsonReviver (lines 252-258).                                             *)

\* The digits of a number leaf: [neg, ip, fp].
NumParts(tok) ==
  LET neg  == tok.s[1] = "-"
      body == IF neg THEN Tail(tok.s) ELSE tok.s
      dot  == indexOf(body, ".")
  IN  [neg |-> neg,
       ip  |-> IF dot = 0 THEN body ELSE SubSeq(body, 1, dot - 1),
       fp  |-> IF dot = 0 THEN <<>> ELSE SubSeq(body, dot + 1, Len(body))]

RECURSIVE IncDigits(_)
\* The digits of n + 1, given the digits of n.
IncDigits(ds) ==
  IF ds = <<>> THEN <<"1">>
  ELSE IF ds[Len(ds)] = "9" THEN IncDigits(SubSeq(ds, 1, Len(ds) - 1)) \o <<"0">>
  ELSE SubSeq(ds, 1, Len(ds) - 1) \o <<DigitChars[DigitValue(ds[Len(ds)]) + 2]>>

\* The number leaf of the hundredths whose digits are ds: x / 100.
HundredthsTok(neg, ds) ==
  NumTok(neg, SubSeq(ds, 1, Len(ds) - 2), SubSeq(ds, Len(ds) - 1, Len(ds)))

\* The digits of value * 100 before the point, and those after it.
TimesHundred(p) ==
  [ip |-> p.ip \o SubSeq(p.fp \o Zeros(2), 1, 2),
   fp |-> StripTrailingZeros(SubSeq(p.fp, 3, Len(p.fp)))]

\* Rounding of neg? x.ip.x.fp to an integer, a tie going away from zero.
RoundAwayDigits(neg, x) ==
  IF x.fp # <<>> /\ DigitValue(x.fp[1]) >= 5 THEN IncDigits(x.ip) ELSE x.ip

\* Math.round(neg? x.ip.x.fp): floor(x + 0.5), so a tie goes towards
\* +Infinity and -12.5 rounds to -12.
MathRoundDigits(neg, x) ==
  IF x.fp # <<>> /\ DigitValue(x.fp[1]) >= 5 /\ (neg => x.fp # <<"5">>)
  THEN IncDigits(x.ip)
  ELSE x.ip

\* Math.round(value * 100) / 100 with ties rounded away from zero.
RoundHalfAway(tok) ==
  HundredthsTok(NumParts(tok).neg,
                RoundAwayDigits(NumParts(tok).neg, TimesHundred(NumParts(tok))))

\* Math.round(value * 100) / 100
MathRound100(tok) ==
  HundredthsTok(NumParts(tok).neg,
                MathRoundDigits(NumParts(tok).neg, TimesHundred(NumParts(tok))))

\* jsonReviver(key, value)
jsonReviver(key, value) ==
  IF value.t = "num" THEN MathRound100(value) ELSE value

\* JSON.parse calls the reviver on every node of the tree, leaves first.
Revive(tree) == [i \in 1..Len(tree) |-> jsonReviver("", tree[i])]

------------------------------------------------------------------------------
(* One invocation of generateRubricFromText or evaluateSubmission.          *)

VARIABLES
  rev,       \* revision of the service the invocation runs: 1, 2 or 3
  op,        \* "rubric" (generateRubricFromText) or "evaluation" (evaluateSubmission)
  given,     \* how the model's reply is put together: [shape, parts]
  response,  \* response.text, <<>> when the model returned no text
  pc,        \* the statement the invocation is at
  cleaned,   \* the local variable `cleaned` of cleanJson
  parsed,    \* what JSON.parse read, before any reviver runs: [ok, value]
  result,    \* the value the operation returned
  thrown,    \* the message of the Error the operation threw, "" if none
  logged,    \* what console.error / console.debug were given, in order
  requests   \* calls of ai.models.generateContent made by the invocation

\* The variables of one invocation followed statement by statement.
decoderVars == <<rev, op, given, response, pc, cleaned, parsed, result, thrown, logged, requests>>

VARIABLES
  calls,             \* the invocations of the service in flight: id -> locals and outcome
  submissions,       \* App's state `submissions`, in upload order
  rendered,          \* the `submissions` of the last render, which the buttons close over
  runs,              \* the runEvaluation calls started: id of the submission, position, result
  structuredRubric,  \* App's assignment.structuredRubric
  setup              \* App's state of the setup tab and of the request for a rubric

\* What belongs to the concurrent service calls and to App.
otherVars == <<calls, submissions, rendered, runs, structuredRubric, setup>>

\* assignment.structuredRubric before any rubric is generated: null.
NoRubric == "null"

\* App as the useState calls of lines 27-42 leave it: the setup tab, no text
\* (rubricText and questionText tell whether the text is non-empty), no
\* request for a rubric in flight; `last` is what handleGenerateRubric did
\* last, and `shown` is what the last render has put into the closures of the
\* handlers and into the disabled attribute of the button.
InitialSetup ==
  [activeTab |-> "setup", rubricText |-> FALSE, questionText |-> FALSE,
   isGeneratingRubric |-> FALSE, inflight |-> 0,
   last |-> [what |-> "none", rubric |-> NoRubric],
   shown |-> [rubricText |-> FALSE, questionText |-> FALSE,
              structuredRubric |-> NoRubric, isGeneratingRubric |-> FALSE]]

vars == <<rev, op, given, response, pc, cleaned, parsed, result, thrown, logged, requests,
          calls, submissions, rendered, runs, structuredRubric, setup>>

\* No service call and no App state: one invocation is followed on its own.
OthersIdle ==
  /\ calls = <<>>
  /\ submissions = <<>>
  /\ rendered = <<>>
  /\ runs = <<>>
  /\ structuredRubric = NoRubric
  /\ setup = InitialSetup

Revisions == {1, 2, 3}

Operations == {"rubric", "evaluation"}

\* The message of the SyntaxError JSON.parse throws.
SyntaxErrorMessage == "SyntaxError: Unexpected token in JSON"

\* throw new Error(...) of lines 309 and 392 (78 and 156, 621 and 690).
EmptyResponseMessage(o) ==
  IF o = "rubric" THEN "No response from Gemini" ELSE "No evaluation generated"

\* The catch blocks with one message for both operations.
ParseFailureMessageShared(o) == "Failed to parse response."

\* throw new Error(...) of lines 317 and 400 (86 and 164).
ParseFailureMessage(o) ==
  IF o = "rubric"
  THEN "Failed to parse rubric structure. Please try again."
  ELSE "Failed to parse evaluation result. The model may have been interrupted or produced invalid JSON."

\* The first argument of console.error, lines 315 and 398.
ParseFailureLabel(o) ==
  IF o = "rubric" THEN "Failed to parse Rubric JSON" ELSE "Failed to parse Evaluation JSON"

\* The first argument of console.debug, lines 316 and 399.
RawResponseLabel(o) ==
  IF o = "rubric" THEN "Raw Rubric Response:" ELSE "Raw Evaluation Response:"

RECURSIVE Flatten(_)
Flatten(parts) ==
  IF parts = <<>> THEN <<>> ELSE Head(parts) \o Flatten(Tail(parts))

\* The state before the operation is called, for a reply drawn from Inputs.
InitWith(Inputs) ==
  /\ rev \in Revisions
  /\ op \in Operations
  /\ given \in Inputs
  /\ response = Flatten(given.parts)
  /\ pc = "idle"
  /\ cleaned = <<>>
  /\ parsed = [ok |-> FALSE, value |-> <<>>]
  /\ result = <<>>
  /\ thrown = ""
  /\ logged = <<>>
  /\ requests = 0
  /\ OthersIdle

\* const response = await ai.models.generateContent({...})  (lines 281, 358)
IssueRequest ==
  /\ pc = "idle"
  /\ requests' = requests + 1
  /\ pc' = "awaiting"
  /\ UNCHANGED <<rev, op, given, response, cleaned, parsed, result, thrown, logged>>
  /\ UNCHANGED otherVars

\* if (!response.text) throw new Error(...)  (lines 309, 392)
RespondsEmpty ==
  /\ pc = "awaiting"
  /\ response = <<>>
  /\ thrown' = EmptyResponseMessage(op)
  /\ pc' = "threw"
  /\ UNCHANGED <<rev, op, given, response, cleaned, parsed, result, logged, requests>>
  /\ UNCHANGED otherVars

\* The reply has text: cleanJson(response.text) is entered.
RespondsText ==
  /\ pc = "awaiting"
  /\ response # <<>>
  /\ cleaned' = response
  /\ pc' = "strip"
  /\ UNCHANGED <<rev, op, given, response, parsed, result, thrown, logged, requests>>
  /\ UNCHANGED otherVars

\* Line 224 (17): both markers removed wherever they occur.
StripStep ==
  /\ pc = "strip"
  /\ rev \in {1, 2}
  /\ cleaned' = StripFences(cleaned)
  /\ pc' = "span"
  /\ UNCHANGED <<rev, op, given, response, parsed, result, thrown, logged, requests>>
  /\ UNCHANGED otherVars

\* Line 570: the markers removed at the two ends only.
StripAnchoredStep ==
  /\ pc = "strip"
  /\ rev = 3
  /\ cleaned' = StripFencesAnchored(cleaned)
  /\ pc' = "trim"
  /\ UNCHANGED <<rev, op, given, response, parsed, result, thrown, logged, requests>>
  /\ UNCHANGED otherVars

\* Lines 227-232 (20-25).
SpanStep ==
  /\ pc = "span"
  /\ cleaned' = LocateSpan(cleaned)
  /\ pc' = IF rev = 2 THEN "truncate" ELSE "trim"
  /\ UNCHANGED <<rev, op, given, response, parsed, result, thrown, logged, requests>>
  /\ UNCHANGED otherVars

\* Line 237.
TruncateStep ==
  /\ pc = "truncate"
  /\ cleaned' = TruncateDecimals(cleaned)
  /\ pc' = "rewrite"
  /\ UNCHANGED <<rev, op, given, response, parsed, result, thrown, logged, requests>>
  /\ UNCHANGED otherVars

\* Lines 241-247.
RewriteStep ==
  /\ pc = "rewrite"
  /\ cleaned' = RewriteScientific(cleaned)
  /\ pc' = "trim"
  /\ UNCHANGED <<rev, op, given, response, parsed, result, thrown, logged, requests>>
  /\ UNCHANGED otherVars

\* return cleaned.trim()  (lines 249, 27, 570)
TrimStep ==
  /\ pc = "trim"
  /\ cleaned' = trim(cleaned)
  /\ pc' = "parse"
  /\ UNCHANGED <<rev, op, given, response, parsed, result, thrown, logged, requests>>
  /\ UNCHANGED otherVars

\* JSON.parse(cleaned, ...) reads the text: it has a tree, or a SyntaxError.
ParseStep ==
  /\ pc = "parse"
  /\ parsed' = JSONparse(cleaned)
  /\ pc' = "parsed"
  /\ UNCHANGED <<rev, op, given, response, cleaned, result, thrown, logged, requests>>
  /\ UNCHANGED otherVars

\* tree has a member named by the text key.
HasKey(tree, key) ==
  \E i \in 1..(Len(tree) - 1) : tree[i] = Tok("str", key) /\ tree[i + 1].t = ":"

\* A cast that checks the operation's first required field at run time.
ShapeRequired(tree, o) ==
  IF o = "rubric"
  THEN HasKey(tree, <<"c", "r", "i", "t", "e", "r", "i", "a">>)
  ELSE HasKey(tree, <<"f", "i", "n", "a", "l", "_", "s", "c", "o", "r", "e">>)

\* `as Rubric`, `as EvaluationResult` (lines 313, 396): a cast the compiler
\* erases; at run time every tree is accepted.
ShapeAccepted(tree, o) == TRUE

\* return JSON.parse(cleaned) as ...  (lines 82, 160, 622, 691): no reviver,
\* the tree is the value returned.
ReturnTree ==
  /\ pc = "parsed"
  /\ parsed.ok
  /\ ShapeAccepted(parsed.value, op)
  /\ rev \in {1, 3}
  /\ result' = parsed.value
  /\ pc' = "returned"
  /\ UNCHANGED <<rev, op, given, response, cleaned, parsed, thrown, logged, requests>>
  /\ UNCHANGED otherVars

\* return JSON.parse(cleaned, jsonReviver) as ...  (lines 313, 396): the
\* reviver has run over every node of the tree.
ReviveStep ==
  /\ pc = "parsed"
  /\ parsed.ok
  /\ ShapeAccepted(parsed.value, op)
  /\ rev = 2
  /\ result' = Revive(parsed.value)
  /\ pc' = "returned"
  /\ UNCHANGED <<rev, op, given, response, cleaned, parsed, thrown, logged, requests>>
  /\ UNCHANGED otherVars

\* The second argument of console.debug with the sanitized text in place of
\* response.text.
LoggedSanitizedText(raw, sanitized) == sanitized

\* The second argument of console.debug, lines 316 and 399: response.text.
LoggedRawText(raw, sanitized) == raw

\* catch (e) { console.error(...); console.debug(...); throw new Error(...) }
\* (lines 314-318, 397-401; 83-87, 161-165)
CatchParseError ==
  /\ pc = "parsed"
  /\ ~(parsed.ok /\ ShapeAccepted(parsed.value, op))
  /\ rev \in {1, 2}
  /\ logged' = logged \o << <<"error", ParseFailureLabel(op), SyntaxErrorMessage>>,
                            <<"debug", RawResponseLabel(op), LoggedRawText(response, cleaned)>> >>
  /\ thrown' = ParseFailureMessage(op)
  /\ pc' = "threw"
  /\ UNCHANGED <<rev, op, given, response, cleaned, parsed, result, requests>>
  /\ UNCHANGED otherVars

\* Revision 3 has no try around JSON.parse (lines 622, 691): the SyntaxError
\* leaves the operation as it is.
PropagateParseError ==
  /\ pc = "parsed"
  /\ ~(parsed.ok /\ ShapeAccepted(parsed.value, op))
  /\ rev = 3
  /\ thrown' = SyntaxErrorMessage
  /\ pc' = "threw"
  /\ UNCHANGED <<rev, op, given, response, cleaned, parsed, result, logged, requests>>
  /\ UNCHANGED otherVars

Next ==
  \/ IssueRequest
  \/ RespondsEmpty
  \/ RespondsText
  \/ StripStep
  \/ StripAnchoredStep
  \/ SpanStep
  \/ TruncateStep
  \/ RewriteStep
  \/ TrimStep
  \/ ParseStep
  \/ ReturnTree
  \/ ReviveStep
  \/ CatchParseError
  \/ PropagateParseError

------------------------------------------------------------------------------
(* Replies the model can give.                                              *)

Q == Quote

\* Replies every family has: no text, an empty object, and a word that is no JSON.
EdgeInputs ==
  { [shape |-> "edge", parts |-> <<>>],
    [shape |-> "edge", parts |-> << <<"{", "}">> >>],
    [shape |-> "edge", parts |-> << <<"n", "o">> >>] }

\* Longest reply of the pieces family, in pieces.
MaxPieces == 3

\* Markers, braces, prose and white space to build replies from.
SpanPieces ==
  { FenceJson, Fence, <<BackTick>>, <<"{">>, <<"}">>, <<" ">>,
    <<"a">>, <<Q, "k", Q, ":", "1">> }

PieceInputs ==
  { [shape |-> "pieces", parts |-> p] :
      p \in UNION { [1..n -> SpanPieces] : n \in 1..MaxPieces } }

InitPieces == InitWith(PieceInputs \cup EdgeInputs)

SpecPieces == InitPieces /\ [][Next]_vars

\* A JSON object with one numeric member: {"w": <sign><integer><fraction><exponent>}
NumericPre == <<"{", Q, "w", Q, ":">>

NumericPost == <<"}">>

\* Most fraction digits of a numeric literal.
MaxFraction == 8

\* Digit strings whose prefixes are the fractions: ties at the third digit
\* (005, 125, 375, 995), a tail just past a tie (00500005), a long tail of
\* nines, and the noise a float prints (00000018).
LongFractions ==
  { <<"0", "0", "5", "0", "0", "0", "0", "5", "0", "0", "0", "0">>,
    <<"1", "2", "5", "0", "0", "0", "0", "0", "0", "0", "0", "0">>,
    <<"3", "7", "5", "0", "0", "0", "0", "0", "0", "0", "0", "0">>,
    <<"9", "9", "5", "0", "0", "0", "0", "0", "0", "0", "0", "0">>,
    <<"4", "9", "9", "9", "9", "9", "9", "9", "9", "9", "9", "9">>,
    <<"0", "0", "0", "0", "0", "0", "1", "8", "0", "0", "0", "0">>,
    <<"5", "0", "5", "0", "0", "0", "0", "0", "0", "0", "0", "0">> }

Fractions == { SubSeq(f, 1, n) : f \in LongFractions, n \in 0..MaxFraction }

IntParts == {<<"0">>, <<"5">>, <<"1", "2">>}

Signs == {<<>>, <<"-">>}

Exponents == {<<>>, <<"e", "+", "0", "0">>, <<"E", "2">>, <<"e", "-", "1">>}

NumericInputs ==
  { [shape |-> "numeric",
     parts |-> <<NumericPre, sg, ip, IF fp = <<>> THEN <<>> ELSE <<".">> \o fp, ex, NumericPost>>] :
      sg \in Signs, ip \in IntParts, fp \in Fractions, ex \in Exponents }

InitNumeric == InitWith(NumericInputs \cup EdgeInputs)

SpecNumeric == InitNumeric /\ [][Next]_vars

\* Most pieces of a text of numerals.
MaxNumPieces == 3

\* Numerals and what separates them: a short decimal, an integer, a long
\* fraction, two exponents, a comma and a minus sign.
NumeralPieces ==
  { <<"1", ".", "5">>, <<"1">>, <<".", "1", "2", "3", "4", "5", "6", "7", "8">>,
    <<"e", "1">>, <<"E", "-", "2">>, <<",">>, <<"-">> }

NumeralInputs ==
  { [shape |-> "numerals", parts |-> ps] :
      ps \in UNION { [1..n -> NumeralPieces] : n \in 0..MaxNumPieces } }

InitNumerals == InitWith(NumeralInputs \cup EdgeInputs)

SpecNumerals == InitNumerals /\ [][Next]_vars

\* Prose around a fenced object: none, plain words, words with a brace.
Prose == { <<>>, <<"H", "i", " ">>, <<"a", "{", "b">>, <<"}", " ">> }

OpeningFences == { FenceJson \o <<"\n">>, Fence \o <<"\n">> }

ClosingFences == { <<"\n">> \o Fence }

\* Valid JSON objects: empty, a decimal, an array of keywords, strings that
\* hold a fence marker, a long decimal, a lone backtick and an exponent, and
\* a nested object.
Objects ==
  { <<"{", "}">>,
    <<"{", Q, "k", Q, ":", "1", ".", "5", "}">>,
    <<"{", Q, "a", Q, ":", "[", "t", "r", "u", "e", ",", "n", "u", "l", "l", ",", Q, "x", Q, "]", "}">>,
    <<"{", Q, "k", Q, ":", Q, "a", BackTick, BackTick, BackTick, "b", Q, "}">>,
    <<"{", Q, "v", Q, ":", Q, "1", ".", "2", "3", "4", "5", "6", "7", "8", "9", Q, "}">>,
    <<"{", Q, "a", Q, ":", "{", Q, "b", Q, ":", "-", "2", ".", "1", "2", "5", "}", "}">>,
    <<"{", Q, "k", Q, ":", Q, BackTick, Q, "}">>,
    <<"{", Q, "s", Q, ":", Q, "2", ".", "5", "e", "3", Q, "}">> }

WrappedInputs ==
  { [shape |-> "wrapped", parts |-> <<pre, open, obj, close, post>>] :
      pre \in Prose, open \in OpeningFences, obj \in Objects,
      close \in ClosingFences, post \in Prose }

InitWrapped == InitWith(WrappedInputs \cup EdgeInputs)

SpecWrapped == InitWrapped /\ [][Next]_vars

------------------------------------------------------------------------------
(* Properties of span selection, fence removal and parse failures, checked  *)
(* under SpecPieces.                                                        *)

\* c is s without its leading and trailing white space.
IsTrimOf(c, s) ==
  \E a \in 1..(Len(s) + 1) : \E b \in 0..Len(s) :
    /\ c = SubSeq(s, a, b)
    /\ \A k \in 1..(a - 1) : s[k] \in WhiteSpace
    /\ \A k \in (b + 1)..Len(s) : s[k] \in WhiteSpace
    /\ c # <<>> => c[1] \notin WhiteSpace /\ c[Len(c)] \notin WhiteSpace

\* s has an opening brace with a closing brace somewhere after it.
HasBracePair(s) ==
  \E i \in 1..Len(s) : \E j \in (i + 1)..Len(s) : s[i] = "{" /\ s[j] = "}"

\* c runs from the first '{' of s to the last '}' of s, both included.
IsBraceSpanOf(c, s) ==
  \E i \in 1..Len(s) : \E j \in (i + 1)..Len(s) :
    /\ s[i] = "{" /\ \A k \in 1..(i - 1) : s[k] # "{"
    /\ s[j] = "}" /\ \A k \in (j + 1)..Len(s) : s[k] # "}"
    /\ c = SubSeq(s, i, j)

\* c is the span the claim describes for the fence-stripped text s.
IsSelectedSpanOf(c, s) ==
  IF HasBracePair(s) THEN IsBraceSpanOf(c, s) ELSE IsTrimOf(c, s)

\* C1: in revisions 1 and 2 the text cleanJson selects for parsing is the
\* substring from the first '{' to the last '}' of the fence-stripped text when
\* the last '}' lies after the first '{', whatever braces lie between, and
\* otherwise the whole fence-stripped text without surrounding white space.
\* Right after lines 227-232 the span is held untrimmed; revision 1 returns it
\* trimmed, revision 2 returns it trimmed and numerically rewritten.
C1_SpanFirstToLastBrace ==
  /\ ((rev = 2 /\ pc = "truncate") \/ (rev = 1 /\ pc = "trim"))
       => IF HasBracePair(StripFences(response))
          THEN IsBraceSpanOf(cleaned, StripFences(response))
          ELSE cleaned = StripFences(response)
  /\ (rev = 1 /\ pc = "parse")
       => IsSelectedSpanOf(cleaned, StripFences(response))
  /\ (rev = 2 /\ pc = "parse")
       => \E a \in 1..(Len(StripFences(response)) + 1) :
          \E b \in 0..Len(StripFences(response)) :
            /\ IsSelectedSpanOf(SubSeq(StripFences(response), a, b), StripFences(response))
            /\ cleaned = NumericNormalizer(SubSeq(StripFences(response), a, b))

\* C1 witness: the span has been selected and an unrelated '}' lies inside it.
C1_Witness ==
  /\ rev = 2
  /\ pc = "truncate"
  /\ HasBracePair(StripFences(response))
  /\ \E k \in 1..(Len(cleaned) - 1) : cleaned[k] = "}"

RECURSIVE IsSubsequence(_, _)
\* c can be had from s by deleting characters.
IsSubsequence(c, s) ==
  IF c = <<>> THEN TRUE
  ELSE IF s = <<>> THEN FALSE
  ELSE IF Head(c) = Head(s) THEN IsSubsequence(Tail(c), Tail(s))
  ELSE IsSubsequence(c, Tail(s))

\* The fence stripper has just run.
FencesStripped == (rev \in {1, 2} /\ pc = "span") \/ (rev = 3 /\ pc = "trim")

\* C6: the fence stripper (lines 222-224 and 568-571) leaves no fence marker
\* anywhere in its output, deletes nothing but marker text, and leaves a text
\* without markers as it is.
C6_NoFenceMarkerLeft ==
  (rev \in {2, 3} /\ FencesStripped) =>
    /\ ~Contains(cleaned, Fence)
    /\ IsSubsequence(cleaned, response)
    /\ \A k \in 1..Len(response) :
         response[k] \notin {BackTick, "j", "s", "o", "n"} \cup WhiteSpace
           => \E m \in 1..Len(cleaned) : cleaned[m] = response[k]
    /\ ~Contains(response, Fence) /\ rev = 2 => cleaned = response

\* The same statement for revisions 1 and 2 alone, where every replace is global.
C6_GlobalStripperLeavesNoMarker ==
  (rev \in {1, 2} /\ pc = "span") =>
    /\ ~Contains(cleaned, Fence)
    /\ IsSubsequence(cleaned, response)
    /\ ~Contains(response, Fence) => cleaned = response

\* C10: in revision 2, when the sanitized text is no valid JSON the operation
\* returns no value and throws its own message, which names the operation,
\* is not the parser's error, and differs between the two operations; it has
\* made one request and makes no other.
C10_ParseFailureMessage ==
  /\ (rev = 2 /\ pc \in {"returned", "threw"} /\ response # <<>> /\ ~parsed.ok) =>
       /\ pc = "threw"
       /\ result = <<>>
       /\ op = "rubric" => thrown = "Failed to parse rubric structure. Please try again."
       /\ op = "evaluation" =>
            thrown = "Failed to parse evaluation result. The model may have been interrupted or produced invalid JSON."
       /\ thrown # SyntaxErrorMessage
       /\ requests = 1
  /\ (rev = 2 /\ pc = "returned") => parsed.ok /\ thrown = ""
  /\ requests <= 1

\* C10 witness: evaluateSubmission has thrown because its reply did not parse.
C10_Witness ==
  /\ rev = 2
  /\ op = "evaluation"
  /\ pc = "threw"
  /\ response # <<>>
  /\ ~parsed.ok
  /\ logged # <<>>

------------------------------------------------------------------------------
(* Properties of the numeric rewrites and of the reviver, checked under     *)
(* SpecNumeric.  The literal of a numeric reply is given.parts[2..5].       *)

IsNumeric == given.shape = "numeric"

LitSign == given.parts[2]

LitInt == given.parts[3]

\* The fraction digits, without the dot.
LitFraction == IF given.parts[4] = <<>> THEN <<>> ELSE Tail(given.parts[4])

LitExponent == given.parts[5]

\* The first n characters of s, or all of s if it is shorter.
Take(s, n) == SubSeq(s, 1, Min(n, Len(s)))

\* The reply with its literal's fraction and exponent replaced.
WithLiteral(dotFraction, exponent) ==
  NumericPre \o LitSign \o LitInt \o dotFraction \o exponent \o NumericPost

\* C7: the truncation of line 237 rewrites a literal with more than 6
\* fraction digits to its integer part and its first 6 fraction digits,
\* cutting and not rounding, and leaves a literal with 6 or fewer fraction
\* digits as it is; a decimal literal without exponent is returned so.
C7_TruncatesAfterSixDigits ==
  /\ (IsNumeric /\ rev = 2 /\ pc = "rewrite") =>
       cleaned = WithLiteral(IF Len(LitFraction) > 6
                             THEN <<".">> \o SubSeq(LitFraction, 1, 6)
                             ELSE given.parts[4],
                             LitExponent)
  /\ (IsNumeric /\ rev = 2 /\ pc = "parse" /\ LitExponent = <<>>) =>
       cleaned = WithLiteral(IF Len(LitFraction) > 6
                             THEN <<".">> \o SubSeq(LitFraction, 1, 6)
                             ELSE given.parts[4],
                             <<>>)

\* C7 witness: a literal with more than 6 fraction digits has been truncated.
C7_Witness ==
  /\ IsNumeric
  /\ rev = 2
  /\ pc = "rewrite"
  /\ Len(LitFraction) > 6
  /\ LitExponent = <<>>

\* The hundredths a number leaf with at most 2 fraction digits stands for.
Centi(tok) ==
  (IF NumParts(tok).neg THEN -1 ELSE 1)
    * (100 * DigitsToNat(NumParts(tok).ip)
         + DigitsToNat(SubSeq(NumParts(tok).fp \o Zeros(2), 1, 2)))

\* The millionths a number leaf with at most 6 fraction digits stands for.
Micro(tok) ==
  (IF NumParts(tok).neg THEN -1 ELSE 1)
    * (1000000 * DigitsToNat(NumParts(tok).ip)
         + DigitsToNat(SubSeq(NumParts(tok).fp \o Zeros(6), 1, 6)))

\* C8: the rewrite of lines 241-247 replaces a literal digits.digits e/E
\* [sign] digits by its mantissa cut to at most 2 fraction digits, without the
\* exponent, and the value decoded is that of the cut mantissa; a literal
\* without a fractional mantissa is left as it is.
C8_ScientificBecomesCutMantissa ==
  /\ (IsNumeric /\ rev = 2 /\ pc \in {"trim", "parse"}) =>
       /\ (LitExponent # <<>> /\ LitFraction # <<>>) =>
            cleaned = WithLiteral(<<".">> \o Take(LitFraction, 2), <<>>)
       /\ LitFraction = <<>> => cleaned = response
  /\ (IsNumeric /\ rev = 2 /\ pc = "returned" /\ LitExponent # <<>> /\ LitFraction # <<>>) =>
       /\ result[4].t = "num"
       /\ Len(NumParts(result[4]).fp) <= 2
       /\ Centi(result[4]) =
            (IF LitSign = <<>> THEN 1 ELSE -1)
              * (100 * DigitsToNat(LitInt) + DigitsToNat(Take(LitFraction \o Zeros(2), 2)))

\* C8 witness: 5.0000001...e+00 has been decoded.
C8_Witness ==
  /\ IsNumeric
  /\ rev = 2
  /\ pc = "returned"
  /\ LitInt = <<"5">>
  /\ Len(LitFraction) > 6
  /\ LitExponent = <<"e", "+", "0", "0">>
  /\ Centi(result[4]) = 500

\* C3 as the spec states it: every numeric leaf becomes value x 100 rounded
\* half away from zero, over 100; every other node is returned unchanged.
C3_RoundsHalfAwayFromZero ==
  (rev = 2 /\ pc = "returned") =>
    /\ Len(result) = Len(parsed.value)
    /\ \A i \in 1..Len(result) :
         IF parsed.value[i].t = "num"
         THEN /\ result[i].t = "num"
              /\ Len(NumParts(result[i]).fp) <= 2
              /\ Centi(result[i]) =
                   IF Micro(parsed.value[i]) >= 0
                   THEN (Micro(parsed.value[i]) + 5000) \div 10000
                   ELSE 0 - ((0 - Micro(parsed.value[i]) + 5000) \div 10000)
         ELSE result[i] = parsed.value[i]

\* C3 as amended: every numeric leaf, positive, zero or negative, becomes
\* Math.round(value x 100) / 100, where Math.round rounds to the nearest
\* integer and a tie towards +Infinity (floor(x + 1/2)); every other node is
\* returned unchanged.
C3_RoundsHalfUp ==
  (rev = 2 /\ pc = "returned") =>
    /\ Len(result) = Len(parsed.value)
    /\ \A i \in 1..Len(result) :
         IF parsed.value[i].t = "num"
         THEN /\ result[i].t = "num"
              /\ Len(NumParts(parsed.value[i]).fp) <= 6
              /\ Len(NumParts(result[i]).fp) <= 2
              /\ Centi(result[i]) = (Micro(parsed.value[i]) + 5000) \div 10000
         ELSE result[i] = parsed.value[i]

\* C3 witness: a negative value that lies halfway between two hundredths
\* (-0.125, -0.005) has been rounded.
C3_Witness ==
  /\ IsNumeric
  /\ rev = 2
  /\ pc = "returned"
  /\ Micro(parsed.value[4]) < 0
  /\ (0 - Micro(parsed.value[4])) % 10000 = 5000

\* The exponent a literal states, 0 if it states none.
ExponentValue(ex) ==
  IF ex = <<>> THEN 0
  ELSE IF ex[2] = "-" THEN 0 - DigitsToNat(SubSeq(ex, 3, Len(ex)))
  ELSE IF ex[2] = "+" THEN DigitsToNat(SubSeq(ex, 3, Len(ex)))
  ELSE DigitsToNat(Tail(ex))

\* The hundredths nearest to the unsigned decimal ip.fp: both neighbours on a tie.
NearestHundredths(ip, fp) ==
  IF StripTrailingZeros(SubSeq(fp \o Zeros(3), 3, Len(fp) + 3)) = <<"5">>
  THEN {DigitsToNat(ip \o SubSeq(fp \o Zeros(3), 1, 2)),
        DigitsToNat(ip \o SubSeq(fp \o Zeros(3), 1, 2)) + 1}
  ELSE IF DigitValue((fp \o Zeros(3))[3]) >= 5
  THEN {DigitsToNat(ip \o SubSeq(fp \o Zeros(3), 1, 2)) + 1}
  ELSE {DigitsToNat(ip \o SubSeq(fp \o Zeros(3), 1, 2))}

\* The hundredths nearest to the value the literal of the reply states.
LiteralHundredths ==
  { (IF LitSign = <<>> THEN 1 ELSE -1) * h :
      h \in NearestHundredths(ShiftPoint(LitInt, LitFraction, ExponentValue(LitExponent)).ip,
                              ShiftPoint(LitInt, LitFraction, ExponentValue(LitExponent)).fp) }

\* C4: the numeric leaf decoded is within 0.005 of the literal's value rounded
\* to 2 decimals; both are whole hundredths, so they are the same hundredth.
C4_DecodedWithinHalfCent ==
  (IsNumeric /\ rev = 2 /\ pc = "returned") =>
    /\ result[4].t = "num"
    /\ Centi(result[4]) \in LiteralHundredths

\* C4 for literals that are not negative and state no exponent other than zero.
C4_HoldsForPlainNonNegative ==
  (/\ IsNumeric /\ rev = 2 /\ pc = "returned"
   /\ LitSign = <<>> /\ ExponentValue(LitExponent) = 0
   /\ (LitExponent = <<>> \/ Len(LitFraction) <= 2)) =>
    /\ result[4].t = "num"
    /\ Centi(result[4]) \in LiteralHundredths

------------------------------------------------------------------------------
(* Idempotence of the numeric rewrites, checked under SpecNumerals.         *)

\* The text the numeric rewrites are applied to.
SpanText == LocateSpan(StripFences(response))

NumeralChars == Digit \cup {".", "+", "-", "e", "E"}

\* s[a..b] is a maximal run of numeral characters of s.
IsNumeralRun(s, a, b) ==
  /\ a <= b
  /\ \A k \in a..b : s[k] \in NumeralChars
  /\ a = 1 \/ s[a - 1] \notin NumeralChars
  /\ b = Len(s) \/ s[b + 1] \notin NumeralChars

\* r holds a digit, a dot and a digit in a row: what both patterns need.
HasDigitDotDigit(r) ==
  \E k \in 2..(Len(r) - 1) : r[k] = "." /\ r[k - 1] \in Digit /\ r[k + 1] \in Digit

\* r is one JSON number.
IsJsonNumber(r) == LexNumber(r, 1).ok /\ LexNumber(r, 1).end = Len(r) + 1

\* Every run of numeral characters of s that a pattern could match in is one
\* JSON number.
WellFormedNumerals(s) ==
  \A a \in 1..Len(s) : \A b \in a..Len(s) :
    (IsNumeralRun(s, a, b) /\ HasDigitDotDigit(SubSeq(s, a, b)))
      => IsJsonNumber(SubSeq(s, a, b))

\* C5 as the spec states it: for every text, the numeric rewrites applied to
\* their own output change nothing.
C5_NormalizerIdempotent ==
  (rev = 2 /\ pc = "trim") =>
    /\ cleaned = NumericNormalizer(SpanText)
    /\ NumericNormalizer(cleaned) = cleaned

\* C5 as amended: the numeric rewrites applied to their own output change
\* nothing, for every text in which each maximal run of the characters
\* 0-9 . + - e E that holds a digit, a dot and a digit in a row is one JSON
\* number.
C5_IdempotentOnWellFormedNumerals ==
  (rev = 2 /\ pc = "trim" /\ WellFormedNumerals(SpanText)) =>
    /\ cleaned = NumericNormalizer(SpanText)
    /\ NumericNormalizer(cleaned) = cleaned

\* C5 witness: a text of well-formed numerals that the rewrites have changed.
C5_Witness ==
  /\ given.shape = "numerals"
  /\ rev = 2
  /\ pc = "trim"
  /\ WellFormedNumerals(SpanText)
  /\ HasDigitDotDigit(SpanText)
  /\ cleaned # SpanText

------------------------------------------------------------------------------
(* Properties of decoding a fenced object inside prose, checked under       *)
(* SpecWrapped.  The object of a wrapped reply is given.parts[3].           *)

IsWrapped == given.shape = "wrapped"

\* JSON.parse(cleanJson(text), jsonReviver) of lines 311-313, for a text that
\* cleans to valid JSON.
decode(text) == Revive(JSONparse(cleanJsonRev2(text)).value)

BraceFree(s) == \A k \in 1..Len(s) : s[k] \notin {"{", "}"}

\* C2 as the spec states it: a valid object wrapped in fence markers and
\* surrounded by prose decodes to what the object alone decodes to.
C2_WrappedDecodesAsObjectAlone ==
  (IsWrapped /\ rev = 2 /\ pc \in {"returned", "threw"}) =>
    /\ pc = "returned"
    /\ result = decode(given.parts[3])

\* C2 as amended: a valid object wrapped in fence markers and surrounded by
\* prose that holds no '{' and no '}' decodes to what the object alone
\* decodes to.
C2_WrappedInBraceFreeProse ==
  (/\ IsWrapped /\ rev = 2 /\ pc \in {"returned", "threw"}
   /\ BraceFree(given.parts[1]) /\ BraceFree(given.parts[5])) =>
    /\ pc = "returned"
    /\ result = decode(given.parts[3])

\* C2 witness: a nested object between two stretches of prose has been decoded.
C2_Witness ==
  /\ IsWrapped
  /\ rev = 2
  /\ pc = "returned"
  /\ given.parts[1] = <<"H", "i", " ">>
  /\ given.parts[5] = <<"H", "i", " ">>
  /\ Len(result) > 5

\* The text of a token that is not a number.
TokenText(tok) ==
  IF tok.t = "str" THEN <<Q>> \o tok.s \o <<Q>>
  ELSE IF tok.t = "true" THEN <<"t", "r", "u", "e">>
  ELSE IF tok.t = "false" THEN <<"f", "a", "l", "s", "e">>
  ELSE IF tok.t = "null" THEN <<"n", "u", "l", "l">>
  ELSE <<tok.t>>

\* The tokens of s that are not numbers, in order.
NonNumeric(toks) == SelectSeq(toks, LAMBDA tok : tok.t # "num")

\* C9: every token of the object that is not a number - keys, strings with
\* backticks or digit-dot-digit text among them, keywords, punctuation - is
\* in cleanJson's output as it is in the input.
C9_NonNumericTokensKept ==
  (IsWrapped /\ rev = 2 /\ pc = "parse") =>
    \A i \in 1..Len(Lex(given.parts[3], 1)) :
      Lex(given.parts[3], 1)[i].t # "num"
        => Contains(cleaned, TokenText(Lex(given.parts[3], 1)[i]))

\* C9 for objects none of whose strings holds a fence marker or a digit, a
\* dot and a digit in a row, inside prose without braces: what is parsed has
\* the object's non-numeric tokens, all of them, in order.
C9_HoldsForPlainStrings ==
  (/\ IsWrapped /\ rev = 2 /\ pc = "parse"
   /\ BraceFree(given.parts[1]) /\ BraceFree(given.parts[5])
   /\ \A i \in 1..Len(Lex(given.parts[3], 1)) :
        Lex(given.parts[3], 1)[i].t = "str"
          => /\ ~Contains(Lex(given.parts[3], 1)[i].s, Fence)
             /\ ~HasDigitDotDigit(Lex(given.parts[3], 1)[i].s)) =>
    NonNumeric(Lex(cleaned, 1)) = NonNumeric(Lex(given.parts[3], 1))

------------------------------------------------------------------------------
(* Diagnostics of a failed parse, checked under SpecPieces.                 *)

C16_ValidJsonIsReturned ==
  (rev = 2 /\ pc \in {"returned", "threw"} /\ response # <<>> /\ parsed.ok) =>
    /\ pc = "returned"
    /\ result = Revive(parsed.value)
    /\ thrown = ""
    /\ logged = <<>>

\* C16 witness: generateRubricFromText has returned an object without
\* `criteria`, evaluateSubmission one whose only member is not of its type.
C16_Witness ==
  /\ rev = 2
  /\ pc = "returned"
  /\ \/ op = "rubric" /\ cleaned = <<"{", "}">>
     \/ op = "evaluation" /\ cleaned = <<"{", Q, "k", Q, ":", "1", "}">>
  /\ ~ShapeRequired(result, op)

------------------------------------------------------------------------------
(* Calls of the service running side by side (revision 2, lines 263-553).   *)
(* A call is a record of the locals and of the outcome of one invocation.   *)
(* Everything between two awaits is one step: the code after an await runs  *)
(* to its next await, return or throw without interruption.                 *)

\* Most calls in flight together.
MaxCalls == 2

CallIds == 1..MaxCalls

ServiceOperations == {"rubric", "evaluation", "analysis", "transcription", "factcheck"}

\* The operations that hand response.text to cleanJson and JSON.parse.
DecodingOperations == {"rubric", "evaluation", "analysis"}

\* Pieces of the links fetchGithubContent is called with.
Https == <<"h", "t", "t", "p", "s", ":", "/", "/">>
GithubHost == <<"g", "i", "t", "h", "u", "b", ".", "c", "o", "m">>
RawHost ==
  <<"r", "a", "w", ".", "g", "i", "t", "h", "u", "b", "u", "s", "e", "r",
    "c", "o", "n", "t", "e", "n", "t", ".", "c", "o", "m">>
BlobSegment == <<"/", "b", "l", "o", "b", "/">>
TreeSegment == <<"/", "t", "r", "e", "e", "/">>
MainReadme == <<"/", "m", "a", "i", "n", "/", "R", "E", "A", "D", "M", "E", ".", "m", "d">>

\* s with every occurrence of p replaced by q, from position i on.
RECURSIVE ReplaceEveryFrom(_, _, _, _)
ReplaceEveryFrom(s, i, p, q) ==
  IF i > Len(s) THEN <<>>
  ELSE IF MatchesAt(s, i, p) THEN q \o ReplaceEveryFrom(s, i + Len(p), p, q)
  ELSE <<s[i]>> \o ReplaceEveryFrom(s, i + 1, p, q)

ReplaceEvery(s, p, q) == ReplaceEveryFrom(s, 1, p, q)

\* String.prototype.replace with a string pattern: the first occurrence of p
\* from position i on is replaced by q, the rest of s is kept.
RECURSIVE ReplaceFirstFrom(_, _, _, _)
ReplaceFirstFrom(s, i, p, q) ==
  IF i > Len(s) THEN <<>>
  ELSE IF MatchesAt(s, i, p) THEN q \o SubSeq(s, i + Len(p), Len(s))
  ELSE <<s[i]>> \o ReplaceFirstFrom(s, i + 1, p, q)

ReplaceString(s, p, q) == ReplaceFirstFrom(s, 1, p, q)

\* rawUrl of fetchGithubContent (lines 411-421).
RawUrlOf(url) ==
  IF Contains(url, GithubHost) /\ Contains(url, BlobSegment)
  THEN ReplaceString(ReplaceString(url, GithubHost, RawHost), BlobSegment, <<"/">>)
  ELSE IF Contains(url, GithubHost) /\ ~Contains(url, BlobSegment) /\ ~Contains(url, TreeSegment)
  THEN ReplaceString(url, GithubHost, RawHost) \o MainReadme
  ELSE url

\* The repository link analyzeCodeRepository is called with.
RepoUrls ==
  { Https \o GithubHost \o <<"/", "u", "/", "r">> \o BlobSegment \o <<"m", "/", "a">> }

\* A reply in a fence with a number to round, a reply that is no JSON and an
\* object without the expected fields.
ReplyTexts ==
  { <<"{", "}">>,
    <<"n", "o">>,
    <<BackTick, BackTick, BackTick, "j", "s", "o", "n", "\n", "{", Q, "s", Q, ":", "1", ".", "0", "0", "5", "}", "\n", BackTick, BackTick, BackTick>> }

\* What a rejected generateContent throws: an Error, or a value that is none.
UpstreamFailures ==
  { [isError |-> TRUE, message |-> "ApiError: 503 UNAVAILABLE"],
    [isError |-> FALSE, message |-> ""] }

\* How fetch(rawUrl) of lines 424-426 ends: res.ok, !res.ok, or it throws.
FetchOutcomes == {"ok", "notok", "throws"}

\* An empty reply handed to JSON.parse: the parser's error in place of the
\* operation's own.
NoTextMessageOfParser(o) == SyntaxErrorMessage

\* throw new Error(...) of lines 309, 392 and 493.
NoTextMessage(o) ==
  IF o = "analysis" THEN "No code analysis response" ELSE EmptyResponseMessage(o)

\* text: response.text || "No information found."  (line 551)
NoInformationFound ==
  <<"N", "o", " ", "i", "n", "f", "o", "r", "m", "a", "t", "i", "o", "n", " ",
    "f", "o", "u", "n", "d", ".">>

\* e instanceof Error ? e.message : "Unknown error" with the test left out.
ErrorMessageUntested(e) == e.message

\* e instanceof Error ? e.message : "Unknown error"  (line 506)
ErrorMessageOf(e) == IF e.isError THEN e.message ELSE "Unknown error"

\* No CodeAnalysis built by the catch block.
NoAnalysis ==
  [repo_url |-> <<>>, summary |-> "", implementation_score |-> 0, max_score |-> 0,
   evidence |-> <<>>, status |-> "none", error_message |-> ""]

\* The object the catch block of lines 497-508 returns.
FailedAnalysis(repoUrl, e) ==
  [repo_url |-> repoUrl,
   summary |-> "Failed to analyze repository due to access restrictions or model error.",
   implementation_score |-> 0,
   max_score |-> 10,
   evidence |-> <<>>,
   status |-> "failed",
   error_message |-> ErrorMessageOf(e)]

\* JSON.parse(cleanJson(text), jsonReviver): the revived tree, or the SyntaxError.
ReviveParsed(p) == [ok |-> p.ok, value |-> IF p.ok THEN Revive(p.value) ELSE <<>>]

TryDecode(text) == ReviveParsed(JSONparse(cleanJsonRev2(text)))

\* The text another call received, if one did: a buffer shared by all calls.
DecoderInputShared(c, text, all) ==
  IF \E d \in DOMAIN all : d # c /\ all[d].text # <<>>
  THEN all[CHOOSE d \in DOMAIN all : d # c /\ all[d].text # <<>>].text
  ELSE text

\* cleanJson(response.text): response is a const of the invocation (lines 281,
\* 358, 462), so the decoder is given the text of call c's own reply.
DecoderInput(c, text, all) == text

\* A decoder called a second time when the first parse fails.
DecoderCallsRetrying(o, ok) == IF ok THEN 1 ELSE 2

\* Calls of cleanJson / JSON.parse made for one reply with text: the single
\* statements of lines 312-313, 395-396 and 494-495.
DecoderCalls(o, ok) == 1

\* Where an operation goes when its request or its decoding fails and the
\* operation tries again.
AfterFailureRetrying(o) == IF o = "analysis" THEN "ready" ELSE "idle"

\* Where an operation goes when its request or its decoding fails:
\* analyzeCodeRepository returns from its catch block (lines 497-508), the
\* others throw (lines 309-318, 392-401) or let the rejection pass.
AfterFailure(o) == IF o = "analysis" THEN "returned" ELSE "threw"

\* A field of the response: a string, or undefined.
StringField(chars) == [type |-> "string", chars |-> chars]
MissingField == [type |-> "undefined", chars |-> ""]

\* v || fallback for a field that is a string or undefined.
OrElse(v, fallback) == IF v.type = "string" /\ v.chars # "" THEN v.chars ELSE fallback

\* A grounding chunk with the member web, and one without it (a chunk of
\* retrieved context).
WebChunk(uri, title) == [web |-> TRUE, uri |-> uri, title |-> title]
ContextChunk == [web |-> FALSE, uri |-> MissingField, title |-> MissingField]

\* response.candidates?.[0]?.groundingMetadata?.groundingChunks (line 538):
\* undefined when a member of the chain is absent, a value that is no array,
\* or an array of chunks.
AbsentGrounding == [type |-> "undefined", items |-> <<>>]
ObjectGrounding == [type |-> "object", items |-> <<>>]
ArrayGrounding(items) == [type |-> "array", items |-> items]

\* A filter that keeps every source.
KeepsEverySource(s) == TRUE

\* filter((s: any) => s.uri)  (line 544)
KeepsSource(s) == s.uri # ""

\* (c: any) => ({ uri: c.web?.uri || "", title: c.web?.title || "Source" })
\* (lines 541-544)
SourceOf(c) ==
  [uri |-> IF c.web THEN OrElse(c.uri, "") ELSE "",
   title |-> IF c.web THEN OrElse(c.title, "Source") ELSE "Source"]

RECURSIVE SourcesFrom(_, _)
SourcesFrom(items, i) ==
  IF i > Len(items) THEN <<>>
  ELSE IF KeepsSource(SourceOf(items[i]))
  THEN <<SourceOf(items[i])>> \o SourcesFrom(items, i + 1)
  ELSE SourcesFrom(items, i + 1)

\* const sources = Array.isArray(groundingChunks) ? ... : []  (lines 538-545),
\* groundingChunks being [] when the chain gives undefined.
SourcesOf(g) == IF g.type = "array" THEN SourcesFrom(g.items, 1) ELSE <<>>

\* No GroundingResult yet.
NoFacts == [query |-> <<>>, sources |-> <<>>, text |-> <<>>]

\* The invocation before its first statement.
NewCall(o, url) ==
  [op |-> o, url |-> url, fetched |-> <<>>, fetch |-> "none", pc |-> "idle",
   context |-> "", reply |-> "none",
   text |-> <<>>, requests |-> 0, decodes |-> 0, value |-> <<>>, output |-> <<>>,
   degraded |-> NoAnalysis, cause |-> "", message |-> "", logged |-> <<>>,
   query |-> <<>>, grounding |-> AbsentGrounding, facts |-> NoFacts]

NewCalls ==
  { NewCall(o, <<>>) : o \in ServiceOperations \ {"analysis"} }
    \cup { NewCall("analysis", u) : u \in RepoUrls }

\* One invocation of the first part of the module is at rest.
DecoderAtRest ==
  /\ rev = 2
  /\ op = "rubric"
  /\ given = [shape |-> "edge", parts |-> <<>>]
  /\ response = <<>>
  /\ pc = "idle"
  /\ cleaned = <<>>
  /\ parsed = [ok |-> FALSE, value |-> <<>>]
  /\ result = <<>>
  /\ thrown = ""
  /\ logged = <<>>
  /\ requests = 0

AppAtRest ==
  /\ submissions = <<>>
  /\ rendered = <<>>
  /\ runs = <<>>
  /\ structuredRubric = NoRubric
  /\ setup = InitialSetup

InitService ==
  /\ DecoderAtRest
  /\ AppAtRest
  /\ calls \in [CallIds -> NewCalls]

\* const fetchedContext = await fetchGithubContent(repoUrl)  (lines 407-430, 440):
\* the text fetched, or "" when the fetch fails; nothing is thrown.
FetchGithubContent(c) ==
  /\ calls[c].op = "analysis"
  /\ calls[c].pc = "idle"
  /\ \E f \in FetchOutcomes :
       calls' = [calls EXCEPT ![c] =
         [@ EXCEPT !.pc = "ready",
                   !.fetched = RawUrlOf(calls[c].url),
                   !.fetch = f,
                   !.context = IF f = "ok" THEN "README" ELSE "",
                   !.logged = IF f = "throws"
                              THEN Append(@, <<"warn",
                                     "Could not fetch raw GitHub content (CORS or Private):",
                                     "TypeError: Failed to fetch">>)
                              ELSE @]]
  /\ UNCHANGED <<decoderVars, submissions, rendered, runs, structuredRubric, setup>>

\* await ai.models.generateContent({...})  (lines 281, 358, 462, 515, 531)
IssueModelRequest(c) ==
  /\ calls[c].pc = IF calls[c].op = "analysis" THEN "ready" ELSE "idle"
  /\ calls' = [calls EXCEPT ![c] =
       [@ EXCEPT !.pc = "awaiting", !.requests = @ + 1]]
  /\ UNCHANGED <<decoderVars, submissions, rendered, runs, structuredRubric, setup>>

\* generateContent rejects.  analyzeCodeRepository catches what was thrown
\* (lines 497-508); the other operations have no try around the await.
ModelCallFails(c) ==
  /\ calls[c].pc = "awaiting"
  /\ \E e \in UpstreamFailures :
       calls' = [calls EXCEPT ![c] =
         IF @.op = "analysis"
         THEN [@ EXCEPT !.pc = AfterFailure(calls[c].op),
                        !.reply = "rejected",
                        !.cause = e.message,
                        !.degraded = FailedAnalysis(calls[c].url, e),
                        !.logged = Append(@, <<"error", "Code Analysis Failed", e.message>>)]
         ELSE [@ EXCEPT !.pc = AfterFailure(calls[c].op),
                        !.reply = "rejected",
                        !.cause = e.message,
                        !.message = e.message]]
  /\ UNCHANGED <<decoderVars, submissions, rendered, runs, structuredRubric, setup>>

\* if (!response.text) throw new Error(...)  (lines 309, 392, 493)
ModelRepliesEmpty(c) ==
  /\ calls[c].pc = "awaiting"
  /\ calls[c].op \in DecodingOperations
  /\ calls' = [calls EXCEPT ![c] =
       IF @.op = "analysis"
       THEN [@ EXCEPT !.pc = AfterFailure(calls[c].op),
                      !.reply = "text",
                      !.cause = NoTextMessage(calls[c].op),
                      !.degraded = FailedAnalysis(calls[c].url,
                                     [isError |-> TRUE, message |-> NoTextMessage("analysis")]),
                      !.logged = Append(@, <<"error", "Code Analysis Failed",
                                             NoTextMessage("analysis")>>)]
       ELSE [@ EXCEPT !.pc = AfterFailure(calls[c].op),
                      !.reply = "text",
                      !.cause = NoTextMessage(calls[c].op),
                      !.message = NoTextMessage(calls[c].op)]]
  /\ UNCHANGED <<decoderVars, submissions, rendered, runs, structuredRubric, setup>>

\* return response.text || ""  (line 524);
\* return { query, sources, text: response.text || "No information found." }
\* (lines 538-552), for a reply with one of the texts and one of the
\* grounding values given.
PassesReplyOnWith(c, texts, groundings) ==
  /\ calls[c].pc = "awaiting"
  /\ calls[c].op \notin DecodingOperations
  /\ \E t \in texts : \E g \in groundings :
       calls' = [calls EXCEPT ![c] =
         [@ EXCEPT !.pc = "returned",
                   !.reply = "text",
                   !.text = t,
                   !.grounding = g,
                   !.output = IF t = <<>> /\ calls[c].op = "factcheck"
                              THEN NoInformationFound
                              ELSE t,
                   !.facts = IF calls[c].op = "factcheck"
                             THEN [query |-> calls[c].query,
                                   sources |-> SourcesOf(g),
                                   text |-> IF t = <<>> THEN NoInformationFound ELSE t]
                             ELSE @]]
  /\ UNCHANGED <<decoderVars, submissions, rendered, runs, structuredRubric, setup>>

\* The replies of the service as a whole carry no grounding metadata.
PassesReplyOn(c) == PassesReplyOnWith(c, ReplyTexts \cup {<<>>}, {AbsentGrounding})

\* const cleaned = cleanJson(response.text); return JSON.parse(cleaned, jsonReviver)
\* (lines 312-313, 395-396, 494-495), the text being valid JSON once cleaned.
DecodesReply(c) ==
  /\ calls[c].pc = "awaiting"
  /\ calls[c].op \in DecodingOperations
  /\ \E t \in ReplyTexts : \E d \in {TryDecode(DecoderInput(c, t, calls))} :
       /\ d.ok
       /\ calls' = [calls EXCEPT ![c] =
            [@ EXCEPT !.pc = "returned",
                      !.reply = "text",
                      !.text = t,
                      !.decodes = @ + DecoderCalls(calls[c].op, TRUE),
                      !.value = d.value]]
  /\ UNCHANGED <<decoderVars, submissions, rendered, runs, structuredRubric, setup>>

\* The same statements when JSON.parse throws: the catch blocks of lines
\* 314-318 and 397-401 log and throw the operation's message, that of lines
\* 497-508 logs and returns the failed analysis.
DecodingFails(c) ==
  /\ calls[c].pc = "awaiting"
  /\ calls[c].op \in DecodingOperations
  /\ \E t \in ReplyTexts : \E d \in {TryDecode(DecoderInput(c, t, calls))} :
       /\ ~d.ok
       /\ calls' = [calls EXCEPT ![c] =
            IF @.op = "analysis"
            THEN [@ EXCEPT !.pc = AfterFailure(calls[c].op),
                           !.reply = "text",
                           !.text = t,
                           !.decodes = @ + DecoderCalls(calls[c].op, FALSE),
                           !.cause = SyntaxErrorMessage,
                           !.degraded = FailedAnalysis(calls[c].url,
                                          [isError |-> TRUE, message |-> SyntaxErrorMessage]),
                           !.logged = Append(@, <<"error", "Code Analysis Failed",
                                                  SyntaxErrorMessage>>)]
            ELSE [@ EXCEPT !.pc = AfterFailure(calls[c].op),
                           !.reply = "text",
                           !.text = t,
                           !.decodes = @ + DecoderCalls(calls[c].op, FALSE),
                           !.cause = SyntaxErrorMessage,
                           !.message = ParseFailureMessage(calls[c].op),
                           !.logged = @ \o << <<"error", ParseFailureLabel(calls[c].op),
                                                SyntaxErrorMessage>>,
                                              <<"debug", RawResponseLabel(calls[c].op), t>> >>]]
  /\ UNCHANGED <<decoderVars, submissions, rendered, runs, structuredRubric, setup>>

NextService ==
  \/ \E c \in CallIds : FetchGithubContent(c)
  \/ \E c \in CallIds : IssueModelRequest(c)
  \/ \E c \in CallIds : ModelCallFails(c)
  \/ \E c \in CallIds : ModelRepliesEmpty(c)
  \/ \E c \in CallIds : PassesReplyOn(c)
  \/ \E c \in CallIds : DecodesReply(c)
  \/ \E c \in CallIds : DecodingFails(c)

SpecService == InitService /\ [][NextService]_vars

------------------------------------------------------------------------------
(* Properties of the concurrent service calls, checked under SpecService.   *)

\* The call has ended, by return or by throw.
Ended(k) == k.pc \in {"returned", "threw"}

\* C12: when the model returns no text, generateRubricFromText,
\* evaluateSubmission and analyzeCodeRepository raise their own error - 'No
\* response from Gemini', 'No evaluation generated', 'No code analysis
\* response' - which is not the parser's nor the decode failure's message,
\* and cleanJson and JSON.parse have not been called.  The first two throw it
\* to their caller; analyzeCodeRepository raises it inside its try and
\* returns it as the error_message of a failed analysis.
C12_NoTextFailsBeforeDecoding ==
  \A c \in CallIds :
    (/\ calls[c].op \in DecodingOperations
     /\ calls[c].reply = "text"
     /\ calls[c].text = <<>>) =>
      /\ Ended(calls[c])
      /\ calls[c].decodes = 0
      /\ calls[c].value = <<>>
      /\ calls[c].op = "rubric" => calls[c].cause = "No response from Gemini"
      /\ calls[c].op = "evaluation" => calls[c].cause = "No evaluation generated"
      /\ calls[c].op = "analysis" => calls[c].cause = "No code analysis response"
      /\ calls[c].cause \notin {SyntaxErrorMessage, ParseFailureMessage(calls[c].op)}
      /\ calls[c].op \in {"rubric", "evaluation"} =>
           calls[c].pc = "threw" /\ calls[c].message = calls[c].cause
      /\ calls[c].op = "analysis" =>
           /\ calls[c].pc = "returned"
           /\ calls[c].degraded.status = "failed"
           /\ calls[c].degraded.error_message = calls[c].cause

\* C12 witness: all three operations can be seen failing on an empty reply;
\* here analyzeCodeRepository and one of the two others have.
C12_Witness ==
  \E c, d \in CallIds :
    /\ calls[c].op = "analysis"
    /\ calls[d].op \in {"rubric", "evaluation"}
    /\ \A k \in {c, d} :
         calls[k].reply = "text" /\ calls[k].text = <<>> /\ Ended(calls[k])

\* The fetch of the repository gave no text: !res.ok, or fetch threw.
FetchFailed(k) == k.pc # "idle" /\ k.context = ""

\* The model call was rejected, or its reply is empty or does not parse.
ModelFailed(k) ==
  \/ k.reply = "rejected"
  \/ k.reply = "text" /\ ~TryDecode(k.text).ok

\* The result is the degraded analysis of the claim.
IsFailedAnalysis(k) ==
  /\ k.degraded.status = "failed"
  /\ k.degraded.implementation_score = 0
  /\ k.degraded.max_score = 10
  /\ k.degraded.evidence = <<>>
  /\ k.degraded.repo_url = k.url
  /\ k.degraded.summary # ""
  /\ k.degraded.error_message # ""
  /\ k.value = <<>>

\* C13 as the spec states it: analyzeCodeRepository throws nothing, and when
\* the fetch fails, the model call fails, the reply is empty or does not
\* parse, it returns the failed analysis.
C13_EveryFailureGivesFailedAnalysis ==
  \A c \in CallIds :
    calls[c].op = "analysis" =>
      /\ calls[c].pc # "threw"
      /\ calls[c].message = ""
      /\ (Ended(calls[c]) /\ (FetchFailed(calls[c]) \/ ModelFailed(calls[c]))) =>
           IsFailedAnalysis(calls[c])

\* C13 as amended: analyzeCodeRepository throws nothing.  A failed fetch
\* leaves the context empty and the analysis goes on to the model call.  When
\* the model call fails, the reply is empty or does not parse, the failed
\* analysis is returned: status 'failed', score 0 of 10, no evidence, the
\* requested URL and a readable error_message; otherwise what the reply
\* decodes to is returned, whether the fetch failed or not.
C13_ModelFailureGivesFailedAnalysis ==
  \A c \in CallIds :
    calls[c].op = "analysis" =>
      /\ calls[c].pc # "threw"
      /\ calls[c].message = ""
      /\ (FetchFailed(calls[c]) /\ calls[c].pc = "ready") => calls[c].requests = 0
      /\ (Ended(calls[c]) /\ ModelFailed(calls[c])) =>
           /\ IsFailedAnalysis(calls[c])
           /\ calls[c].degraded.error_message
                \in {"ApiError: 503 UNAVAILABLE", "Unknown error",
                     "No code analysis response", SyntaxErrorMessage}
      /\ (Ended(calls[c]) /\ ~ModelFailed(calls[c])) =>
           /\ calls[c].degraded = NoAnalysis
           /\ calls[c].value = TryDecode(calls[c].text).value

\* C13 witness: the fetch failed, then the model call was rejected with a
\* value that is no Error, and the failed analysis has been returned.
C13_Witness ==
  \E c \in CallIds :
    /\ calls[c].op = "analysis"
    /\ calls[c].pc = "returned"
    /\ FetchFailed(calls[c])
    /\ calls[c].reply = "rejected"
    /\ calls[c].degraded.error_message = "Unknown error"

\* C15: an invocation of any of the five operations issues one model request
\* and no more: none before the statement that awaits generateContent, one
\* from then on, also after the request was rejected or the reply failed to
\* decode.
C15_OneRequestPerInvocation ==
  \A c \in CallIds :
    /\ calls[c].pc \in {"idle", "ready"} => calls[c].requests = 0
    /\ calls[c].pc \in {"awaiting", "returned", "threw"} => calls[c].requests = 1
    /\ calls[c].pc \in {"idle", "ready", "awaiting", "returned", "threw"}

\* C15 witness: an analysis whose reply failed to decode and another
\* operation whose request was rejected have both ended.
C15_Witness ==
  \E c, d \in CallIds :
    /\ calls[c].op = "analysis"
    /\ calls[c].reply = "text"
    /\ calls[c].cause = SyntaxErrorMessage
    /\ calls[d].op \in {"rubric", "evaluation", "transcription", "factcheck"}
    /\ calls[d].reply = "rejected"
    /\ Ended(calls[c])
    /\ Ended(calls[d])
    /\ calls[c].requests = 1
    /\ calls[d].requests = 1

\* C17: whatever the order in which the replies of the calls in flight
\* arrive and are decoded, the outcome of each call is that of decoding its
\* own reply alone: the tree cleanJson, JSON.parse and jsonReviver give for
\* that text, or the parser's error.
C17_DecodingIsIndependent ==
  \A c \in CallIds :
    (/\ calls[c].op \in DecodingOperations
     /\ calls[c].reply = "text"
     /\ calls[c].text # <<>>) =>
      /\ Ended(calls[c])
      /\ IF TryDecode(calls[c].text).ok
         THEN /\ calls[c].pc = "returned"
              /\ calls[c].value = TryDecode(calls[c].text).value
              /\ calls[c].cause = ""
         ELSE /\ calls[c].value = <<>>
              /\ calls[c].cause = SyntaxErrorMessage

\* C17 witness: two calls have decoded different replies, one to a tree and
\* one to an error.
C17_Witness ==
  \E c, d \in CallIds :
    /\ c # d
    /\ calls[c].op \in DecodingOperations
    /\ calls[d].op \in DecodingOperations
    /\ calls[c].text # <<>>
    /\ calls[d].text # <<>>
    /\ calls[c].text # calls[d].text
    /\ calls[c].value # <<>>
    /\ calls[d].cause = SyntaxErrorMessage

\* The messages an ended call can hand to its caller; none is made from the reply.
FixedMessages(o) ==
  {"", "ApiError: 503 UNAVAILABLE", "Unknown error", SyntaxErrorMessage,
   NoTextMessage(o), ParseFailureMessage(o)}

\* What holds of the decoder calls of c in every state.
DecodedOnce(c) ==
  /\ (calls[c].reply = "text" /\ calls[c].text # <<>>) =>
       /\ calls[c].decodes = 1
       /\ Ended(calls[c])
       /\ calls[c].value = TryDecode(calls[c].text).value
       /\ calls[c].message \in FixedMessages(calls[c].op)
       /\ calls[c].degraded.error_message \in FixedMessages(calls[c].op)
  /\ (calls[c].reply # "text" \/ calls[c].text = <<>>) => calls[c].decodes = 0

\* C18: in rubric generation, evaluation and code analysis a reply with text
\* is given to cleanJson and JSON.parse once, in the step that receives it;
\* the caller is handed the decoded tree or a fixed message, and once the
\* operation has returned or thrown nothing reads its reply again: the
\* invocation never changes.
C18_ReplyDecodedOnce ==
  /\ [](\A c \in CallIds : calls[c].op \in DecodingOperations => DecodedOnce(c))
  /\ [][\A c \in CallIds : Ended(calls[c]) => calls'[c] = calls[c]]_vars

\* C18 witness: of two calls that were given the same reply, both decoded it
\* once, one being an analysis that returned and one an operation that threw.
C18_Witness ==
  \E c, d \in CallIds :
    /\ c # d
    /\ calls[c].op = "analysis"
    /\ calls[d].op \in {"rubric", "evaluation"}
    /\ calls[c].text = <<"n", "o">>
    /\ calls[d].text = <<"n", "o">>
    /\ calls[c].pc = "returned"
    /\ calls[d].pc = "threw"
    /\ calls[c].decodes = 1
    /\ calls[d].decodes = 1


\* ---------------------------------------------------------------------------
\* App: the grading workflow (src/unnamed/part_002, lines 38, 63-161, 386,
\* 471-488).  `submissions` is React state; every handler and every
\* continuation of runEvaluation runs to its next await without interruption.
\* ---------------------------------------------------------------------------

\* Submissions uploaded in one session.
MaxSubmissions == 2

\* StudentSubmission.status (src/types.ts, line 36).
Statuses == {"pending", "evaluating", "analyzing_code", "graded", "error"}

\* The three needles of the link filter (lines 130-132).
GithubCom == <<"g", "i", "t", "h", "u", "b", ".", "c", "o", "m">>
GitlabCom == <<"g", "i", "t", "l", "a", "b", ".", "c", "o", "m">>
ColabCom ==
  <<"c", "o", "l", "a", "b", ".", "r", "e", "s", "e", "a", "r", "c", "h", ".",
    "g", "o", "o", "g", "l", "e", ".", "c", "o", "m">>

\* l.includes('github.com') || l.includes('gitlab.com') || l.includes('colab...').
IsCodeLink(l) ==
  \/ Contains(l, GithubCom)
  \/ Contains(l, GitlabCom)
  \/ Contains(l, ColabCom)

\* Values JSON.parse can leave in an element of external_links.
StringItem(text) == [type |-> "string", text |-> text]
NumberItem == [type |-> "number", text |-> <<>>]

\* Values JSON.parse can leave in the field external_links itself.
UndefinedLinks == [type |-> "undefined", items |-> <<>>]
NullLinks == [type |-> "null", items |-> <<>>]
StringLinks == [type |-> "string", items |-> <<>>]
ArrayLinks(items) == [type |-> "array", items |-> items]

\* Links a submission document may hold.
DocLink == <<"w", "3", ".", "o", "r", "g", "/", "x">>
RepoLink == <<"g", "i", "t", "h", "u", "b", ".", "c", "o", "m", "/", "u", "/", "r">>
LabLink == <<"g", "i", "t", "l", "a", "b", ".", "c", "o", "m", "/", "v">>

\* No EvaluationResult: the field `evaluation` of a submission not yet graded.
NoResult ==
  [kind |-> "undefined", final_score |-> 0, external_links |-> UndefinedLinks,
   code_analysis |-> NoAnalysis]

\* JSON.parse gave null: evaluateSubmission returns it as an EvaluationResult.
NullResult ==
  [kind |-> "null", final_score |-> 0, external_links |-> UndefinedLinks,
   code_analysis |-> NoAnalysis]

\* JSON.parse gave a number, as for the reply 5: returned as an EvaluationResult
\* as well; reading external_links of it gives undefined.
NumberResult ==
  [kind |-> "number", final_score |-> 0, external_links |-> UndefinedLinks,
   code_analysis |-> NoAnalysis]

\* An EvaluationResult as evaluateSubmission returns it (line 396): whatever
\* JSON.parse read, cast to the type without a test of its fields.
DocumentEvaluation(links) ==
  [kind |-> "object", final_score |-> 8, external_links |-> links,
   code_analysis |-> NoAnalysis]

\* The values evaluateSubmission resolves with that are followed.
EvaluationResults ==
  { DocumentEvaluation(l) :
      l \in { UndefinedLinks, NullLinks, StringLinks,
              ArrayLinks(<<StringItem(DocLink)>>),
              ArrayLinks(<<StringItem(DocLink), StringItem(LabLink)>>),
              ArrayLinks(<<StringItem(RepoLink), StringItem(LabLink)>>),
              ArrayLinks(<<StringItem(RepoLink), NumberItem>>) } }
    \cup {NullResult, NumberResult}

\* result.external_links?.filter(l => l.includes(...)) throws a TypeError
\* (lines 130-132): result is null, the field has no method filter, or an
\* element has no method includes.
LinkScanThrows(r) ==
  \/ r.kind = "null"
  \/ r.external_links.type = "string"
  \/ /\ r.external_links.type = "array"
     /\ \E i \in 1..Len(r.external_links.items) :
          r.external_links.items[i].type # "string"

\* codeLinks of lines 130-132, for a result the scan does not throw on;
\* undefined (field absent or null) counts as no link.
CodeLinksIn(items, i) ==
  IF i > Len(items) THEN <<>>
  ELSE IF IsCodeLink(items[i].text) THEN <<items[i].text>>
  ELSE <<>>

RECURSIVE CodeLinksFrom(_, _)
CodeLinksFrom(items, i) ==
  IF i > Len(items) THEN <<>>
  ELSE CodeLinksIn(items, i) \o CodeLinksFrom(items, i + 1)

CodeLinks(r) ==
  IF r.external_links.type = "array" THEN CodeLinksFrom(r.external_links.items, 1)
  ELSE <<>>

\* A CodeAnalysis that analyzeCodeRepository decoded from the model's reply.
SuccessAnalysis(repoUrl) ==
  [repo_url |-> repoUrl,
   summary |-> "Implements the assignment.",
   implementation_score |-> 7,
   max_score |-> 10,
   evidence |-> <<>>,
   status |-> "success",
   error_message |-> ""]

\* What analyzeCodeRepository(codeLinks[0], rubric) resolves with.
AnalysisResults(repoUrl) ==
  {SuccessAnalysis(repoUrl)}
    \cup { FailedAnalysis(repoUrl, e) : e \in {[isError |-> TRUE, message |-> "ApiError: 503 UNAVAILABLE"]} }

\* A file of the upload, as handleSubmissionUpload builds it (lines 85-91);
\* n stands for the id S-<Date.now()>-<idx>, different for every file.
NewSubmission(n) == [id |-> n, status |-> "pending", evaluation |-> NoResult]

RECURSIVE NewSubmissions(_, _)
NewSubmissions(first, count) ==
  IF count = 0 THEN <<>>
  ELSE <<NewSubmission(first)>> \o NewSubmissions(first + 1, count - 1)

\* No call of runEvaluation made yet for the submission of this id.
NoRun(id) ==
  [id |-> id, pc |-> "none", from |-> "", result |-> NoResult, link |-> <<>>,
   analysis |-> "none", outcome |-> ""]

\* A call of runEvaluation at its first await; `from` is the status the
\* submission had in `submissions` when runEvaluation was called.
NewRun(id, from) ==
  [id |-> id, pc |-> "evaluating", from |-> from, result |-> NoResult, link |-> <<>>,
   analysis |-> "none", outcome |-> ""]

RECURSIVE NoRuns(_, _)
NoRuns(first, count) ==
  IF count = 0 THEN <<>>
  ELSE <<NoRun(first)>> \o NoRuns(first + 1, count - 1)


\* The list a state update is computed from: React hands the updater of
\* setSubmissions(prev => ...) the latest state.
UpdateBaseRendered(prev, snapshot) == snapshot

UpdateBase(prev, snapshot) == prev

\* The element an updater of runEvaluation replaces: s.id === submission.id.
IsTarget(s, ids) == s.id \in ids

\* prev.map(s => s.id === submission.id ? { ...s, status } : s)  (lines 115, 159),
\* for the submissions of ids.
SetStatus(prev, ids, status) ==
  [i \in DOMAIN prev |->
     IF IsTarget(prev[i], ids) THEN [prev[i] EXCEPT !.status = status] ELSE prev[i]]

\* An updater that sets the status and leaves the evaluation out.
SetEvaluationStatusOnly(prev, id, status, evaluation) == SetStatus(prev, {id}, status)

\* prev.map(s => s.id === submission.id ? { ...s, status, evaluation } : s)
\* (lines 136-140, 151-155).
SetEvaluation(prev, id, status, evaluation) ==
  [i \in DOMAIN prev |->
     IF IsTarget(prev[i], {id})
     THEN [prev[i] EXCEPT !.status = status, !.evaluation = evaluation]
     ELSE prev[i]]

\* A catch that logs the error and leaves the status as it is.
StatusKeptAfterCatch(status) == status

\* The status the catch of lines 157-160 gives a submission.
StatusAfterCatch(status) == "error"

\* The Evaluate button is rendered for a submission of this status (line 476).
ShowsEvaluateAlways(status) == TRUE

ShowsEvaluate(status) == status \in {"pending", "error"}

\* runs, with a new call of runEvaluation for each submission of ids.
WithNewRuns(ids) ==
  [i \in DOMAIN runs |->
     IF runs[i].id \in ids THEN NewRun(runs[i].id, submissions[i].status) ELSE runs[i]]

\* runEvaluation up to its first await, for each submission of `targets`
\* (lines 111-117): nothing without a rubric, else the status is set and
\* evaluateSubmission is called.  The update of a click is rendered before the
\* next event is handled.
StartEvaluation(targets) ==
  IF structuredRubric = NoRubric
  THEN UNCHANGED <<submissions, rendered, runs>>
  ELSE /\ submissions' = SetStatus(UpdateBase(submissions, rendered),
                                   {targets[i].id : i \in DOMAIN targets}, "evaluating")
       /\ rendered' = SetStatus(rendered, {targets[i].id : i \in DOMAIN targets}, "evaluating")
       /\ runs' = WithNewRuns({targets[i].id : i \in DOMAIN targets})

IsPending(s) == s.status = "pending"

\* The state of the first part of the module and of the service calls while
\* App is followed.
AppOnly == UNCHANGED <<decoderVars, calls, setup>>

InitApp ==
  /\ DecoderAtRest
  /\ calls = <<>>
  /\ submissions = <<>>
  /\ rendered = <<>>
  /\ runs = <<>>
  /\ structuredRubric = NoRubric
  /\ setup = InitialSetup

\* handleGenerateRubric (lines 63-80): the rubric is set when
\* generateRubricFromText resolves, and left as it was when it rejects.
HandleGenerateRubric ==
  /\ \E resolves \in BOOLEAN :
       structuredRubric' = IF resolves THEN "criteria A" ELSE structuredRubric
  /\ UNCHANGED <<submissions, rendered, runs>>
  /\ AppOnly

\* handleSubmissionUpload (lines 82-109): once every file is read, the new
\* submissions are appended as pending.
HandleSubmissionUpload ==
  /\ \E count \in 1..(MaxSubmissions - Len(submissions)) :
       /\ submissions' = UpdateBase(submissions, rendered)
                          \o NewSubmissions(Len(submissions) + 1, count)
       /\ runs' = runs \o NoRuns(Len(submissions) + 1, count)
  /\ UNCHANGED <<rendered, structuredRubric>>
  /\ AppOnly

\* React renders the state queued by the continuations.
Render ==
  /\ rendered # submissions
  /\ rendered' = submissions
  /\ UNCHANGED <<submissions, runs, structuredRubric>>
  /\ AppOnly

\* onClick={() => runEvaluation(sub)} of the Evaluate button (lines 476-482).
ClickEvaluate ==
  /\ \E i \in DOMAIN rendered :
       /\ ShowsEvaluate(rendered[i].status)
       /\ StartEvaluation(<<rendered[i]>>)
  /\ UNCHANGED structuredRubric
  /\ AppOnly

\* submissions.filter(s => s.status === 'pending').forEach(runEvaluation)  (line 386).
GradeAllPending ==
  /\ SelectSeq(rendered, IsPending) # <<>>
  /\ StartEvaluation(SelectSeq(rendered, IsPending))
  /\ UNCHANGED structuredRubric
  /\ AppOnly

\* evaluateSubmission resolves with res (lines 119-155): the link scan, then
\* either the status analyzing_code and the call of analyzeCodeRepository, or
\* the status graded; a TypeError of the scan is caught at line 157.
EvaluationResolvesWith(r, results) ==
  /\ runs[r].pc = "evaluating"
  /\ \E res \in results :
       IF LinkScanThrows(res)
       THEN /\ submissions' = SetStatus(UpdateBase(submissions, rendered), {runs[r].id},
                                        StatusAfterCatch("evaluating"))
            /\ runs' = [runs EXCEPT ![r] = [id |-> runs[r].id, from |-> runs[r].from, pc |-> "done", result |-> res,
                                            link |-> <<>>, analysis |-> "none",
                                            outcome |-> "error"]]
       ELSE IF CodeLinks(res) # <<>>
       THEN /\ submissions' = SetEvaluation(UpdateBase(submissions, rendered), runs[r].id,
                                            "analyzing_code", res)
            /\ runs' = [runs EXCEPT ![r] = [id |-> runs[r].id, from |-> runs[r].from, pc |-> "fetching",
                                            result |-> res, link |-> CodeLinks(res)[1],
                                            analysis |-> "none", outcome |-> ""]]
       ELSE /\ submissions' = SetEvaluation(UpdateBase(submissions, rendered), runs[r].id,
                                            "graded", res)
            /\ runs' = [runs EXCEPT ![r] = [id |-> runs[r].id, from |-> runs[r].from, pc |-> "done", result |-> res,
                                            link |-> <<>>, analysis |-> "none",
                                            outcome |-> "graded"]]
  /\ UNCHANGED <<rendered, structuredRubric>>
  /\ AppOnly

EvaluationResolves(r) == EvaluationResolvesWith(r, EvaluationResults)

\* evaluateSubmission rejects: the catch of lines 157-160.
EvaluationRejects(r) ==
  /\ runs[r].pc = "evaluating"
  /\ submissions' = SetStatus(UpdateBase(submissions, rendered), {runs[r].id},
                                        StatusAfterCatch("evaluating"))
  /\ runs' = [runs EXCEPT ![r] = [id |-> runs[r].id, from |-> runs[r].from, pc |-> "done", result |-> NoResult,
                                  link |-> <<>>, analysis |-> "none", outcome |-> "error"]]
  /\ UNCHANGED <<rendered, structuredRubric>>
  /\ AppOnly

\* analyzeCodeRepository's await of fetchGithubContent ends (geminiService.ts
\* lines 407-430, 440): fetch(rawUrl) and res.text() have settled, and the
\* request to the model is made.  The text fetched goes into the prompt only.
RepositoryFetchSettles(r) ==
  /\ runs[r].pc = "fetching"
  /\ runs' = [runs EXCEPT ![r] = [id |-> runs[r].id, from |-> runs[r].from, pc |-> "analyzing",
                                  result |-> runs[r].result, link |-> runs[r].link,
                                  analysis |-> "none", outcome |-> ""]]
  /\ UNCHANGED <<submissions, rendered, structuredRubric>>
  /\ AppOnly

\* analyzeCodeRepository resolves (lines 144-155): result.code_analysis is
\* set and the submission is graded with result.
AnalysisResolves(r) ==
  /\ runs[r].pc = "analyzing"
  /\ \E a \in AnalysisResults(runs[r].link) :
       /\ submissions' = SetEvaluation(UpdateBase(submissions, rendered), runs[r].id, "graded",
                                       [runs[r].result EXCEPT !.code_analysis = a])
       /\ runs' = [runs EXCEPT ![r] = [id |-> runs[r].id, from |-> runs[r].from, pc |-> "done",
                                       result |-> [runs[r].result EXCEPT !.code_analysis = a],
                                       link |-> runs[r].link, analysis |-> a.status,
                                       outcome |-> "graded"]]
  /\ UNCHANGED <<rendered, structuredRubric>>
  /\ AppOnly

\* analyzeCodeRepository rejects (lines 146-155): the error is logged and the
\* submission is graded with the document evaluation alone.
AnalysisRejects(r) ==
  /\ runs[r].pc = "analyzing"
  /\ submissions' = SetEvaluation(UpdateBase(submissions, rendered), runs[r].id, "graded",
                                  runs[r].result)
  /\ runs' = [runs EXCEPT ![r] = [id |-> runs[r].id, from |-> runs[r].from, pc |-> "done", result |-> runs[r].result,
                                  link |-> runs[r].link, analysis |-> "threw",
                                  outcome |-> "graded"]]
  /\ UNCHANGED <<rendered, structuredRubric>>
  /\ AppOnly

NextApp ==
  \/ HandleGenerateRubric
  \/ HandleSubmissionUpload
  \/ Render
  \/ ClickEvaluate
  \/ GradeAllPending
  \/ \E r \in DOMAIN runs : EvaluationResolves(r)
  \/ \E r \in DOMAIN runs : EvaluationRejects(r)
  \/ \E r \in DOMAIN runs : RepositoryFetchSettles(r)
  \/ \E r \in DOMAIN runs : AnalysisResolves(r)
  \/ \E r \in DOMAIN runs : AnalysisRejects(r)

SpecApp == InitApp /\ [][NextApp]_vars

\* One value of evaluateSubmission for each way runEvaluation can go on: no
\* link scanned, a scan that throws, a scan that finds a code link.
PathResults ==
  { DocumentEvaluation(UndefinedLinks),
    DocumentEvaluation(StringLinks),
    DocumentEvaluation(ArrayLinks(<<StringItem(DocLink), StringItem(LabLink)>>)) }

\* The request of evaluateSubmission to the model is answered or fails.
EvaluationSettles(r) ==
  /\ r \in DOMAIN runs
  /\ EvaluationResolvesWith(r, PathResults) \/ EvaluationRejects(r)

\* The request of analyzeCodeRepository to the model is answered or fails.
AnalysisSettles(r) ==
  /\ r \in DOMAIN runs
  /\ AnalysisResolves(r) \/ AnalysisRejects(r)

NextAppPaths ==
  \/ HandleGenerateRubric
  \/ HandleSubmissionUpload
  \/ Render
  \/ ClickEvaluate
  \/ GradeAllPending
  \/ \E r \in DOMAIN runs : EvaluationResolvesWith(r, PathResults)
  \/ \E r \in DOMAIN runs : EvaluationRejects(r)
  \/ \E r \in DOMAIN runs : RepositoryFetchSettles(r)
  \/ \E r \in DOMAIN runs : AnalysisResolves(r)
  \/ \E r \in DOMAIN runs : AnalysisRejects(r)

\* App with every request to the model settling in the end; nothing is
\* assumed of the user, of React's renders or of the fetch of the repository.
SpecAppSettling ==
  /\ InitApp
  /\ [][NextAppPaths]_vars
  /\ \A r \in 1..MaxSubmissions : WF_vars(EvaluationSettles(r))
  /\ \A r \in 1..MaxSubmissions : WF_vars(AnalysisSettles(r))


\* ---------------------------------------------------------------------------
\* Properties of the grading workflow, checked under SpecApp.
\* ---------------------------------------------------------------------------

\* evaluateSubmission resolved in this call of runEvaluation.
EvaluationSucceeded(run) ==
  run.pc \in {"fetching", "analyzing", "done"} /\ run.result # NoResult

\* Every submission has its entry of runs, under its own id.
RunsMatchSubmissions ==
  /\ Len(runs) = Len(submissions)
  /\ \A i \in DOMAIN runs : runs[i].id = i /\ submissions[i].id = i

\* C14, as the specification states it: every call of runEvaluation in which
\* evaluateSubmission resolved has ended with the submission graded and the
\* evaluation attached.
C14_SucceededEvaluationIsGraded ==
  /\ RunsMatchSubmissions
  /\ \A i \in DOMAIN runs :
       (runs[i].pc = "done" /\ EvaluationSucceeded(runs[i])) =>
         /\ runs[i].outcome = "graded"
         /\ submissions[i].status = "graded"
         /\ submissions[i].evaluation = runs[i].result

\* Where C14 fails: evaluateSubmission resolved with a scored evaluation whose
\* external_links is a string, and the submission is in error, no evaluation
\* attached.
C14_Witness ==
  \E i \in DOMAIN runs :
    /\ runs[i].pc = "done"
    /\ runs[i].result = DocumentEvaluation(StringLinks)
    /\ runs[i].result.final_score = 8
    /\ runs[i].analysis = "none"
    /\ submissions[i].status = "error"
    /\ submissions[i].evaluation = NoResult

\* What does hold: when evaluateSubmission resolved with a value whose
\* external_links is absent, null or an array of strings, runEvaluation ends
\* with the submission graded and the evaluation attached, whether
\* analyzeCodeRepository returned a success, returned a failed result or
\* threw; every run that ended in error after evaluateSubmission resolved is
\* one whose link scan threw, before any analysis.
C14_HoldsForListedLinks ==
  /\ RunsMatchSubmissions
  /\ \A i \in DOMAIN runs :
       (runs[i].pc = "done" /\ EvaluationSucceeded(runs[i])) =>
         /\ ~LinkScanThrows(runs[i].result) =>
              /\ runs[i].outcome = "graded"
              /\ submissions[i].status = "graded"
              /\ submissions[i].evaluation = runs[i].result
         /\ LinkScanThrows(runs[i].result) =>
              /\ runs[i].outcome = "error"
              /\ runs[i].analysis = "none"
         /\ runs[i].analysis \in {"success", "failed", "threw"} => runs[i].outcome = "graded"

\* A submission graded after its analysis returned a failed result, another
\* graded after its analysis threw.
C14_GradedAfterFailedAnalysis ==
  \E i, j \in DOMAIN runs :
    /\ runs[i].pc = "done"
    /\ runs[j].pc = "done"
    /\ runs[i].analysis = "failed"
    /\ runs[j].analysis = "threw"
    /\ submissions[i].status = "graded"
    /\ submissions[i].evaluation.code_analysis.status = "failed"
    /\ submissions[j].status = "graded"
    /\ submissions[j].evaluation = runs[j].result
    /\ submissions[j].evaluation.code_analysis = NoAnalysis


\* The status and the evaluation the latest runEvaluation of a submission has
\* written last.
WrittenStatus(run) ==
  IF run.pc = "none" THEN "pending"
  ELSE IF run.pc = "evaluating" THEN "evaluating"
  ELSE IF run.pc \in {"fetching", "analyzing"} THEN "analyzing_code"
  ELSE run.outcome

WrittenEvaluation(run) ==
  IF run.pc \in {"fetching", "analyzing"} \/ (run.pc = "done" /\ run.outcome = "graded")
  THEN run.result
  ELSE NoResult

\* C19: whatever the order in which the calls of runEvaluation started side
\* by side resolve, reject and are rendered, every submission uploaded stays
\* in the list and holds the status and the evaluation that the latest
\* runEvaluation of its own id wrote last, and a step changes a submission
\* only when it is a step of the runEvaluation of that submission.
C19_UpdatesTouchOwnSubmission ==
  /\ [](/\ RunsMatchSubmissions
        /\ \A i \in DOMAIN runs :
             /\ submissions[i].status = WrittenStatus(runs[i])
             /\ submissions[i].evaluation = WrittenEvaluation(runs[i]))
  /\ [][\A i \in DOMAIN submissions :
          /\ i \in DOMAIN submissions'
          /\ submissions'[i] # submissions[i] => runs'[i] # runs[i]]_vars

\* C19 witness: two evaluations started from pending have both ended, one
\* graded with a code analysis and one in error, while the list last rendered
\* still shows both as evaluating.
C19_Witness ==
  \E i, j \in DOMAIN runs :
    /\ i # j
    /\ Len(rendered) = Len(submissions)
    /\ rendered[i].status = "evaluating"
    /\ rendered[j].status = "evaluating"
    /\ runs[i].from = "pending"
    /\ runs[j].from = "pending"
    /\ runs[i].pc = "done"
    /\ runs[j].pc = "done"
    /\ submissions[i].status = "graded"
    /\ submissions[i].evaluation.code_analysis.status = "success"
    /\ submissions[j].status = "error"

\* The moves of a status that runEvaluation makes.
AllowedMoves ==
  { <<"pending", "evaluating">>, <<"error", "evaluating">>,
    <<"evaluating", "analyzing_code">>, <<"evaluating", "graded">>,
    <<"evaluating", "error">>, <<"analyzing_code", "graded">> }

\* C20: a step leaves the status of a submission as it is or moves it along
\* pending -> evaluating, error -> evaluating, evaluating -> analyzing_code,
\* evaluating -> graded, evaluating -> error or analyzing_code -> graded; a
\* graded submission keeps its status; and runEvaluation sets out on an
\* evaluation only for a submission whose status in `submissions` is pending
\* or error, for which no earlier evaluation is still under way.
C20_StatusMovesAlongWorkflow ==
  /\ [](/\ RunsMatchSubmissions
        /\ \A i \in DOMAIN runs :
             runs[i].pc # "none" => runs[i].from \in {"pending", "error"})
  /\ [][\A i \in DOMAIN submissions :
          /\ i \in DOMAIN submissions'
          /\ \/ submissions'[i].status = submissions[i].status
             \/ <<submissions[i].status, submissions'[i].status>> \in AllowedMoves
          /\ submissions[i].status = "graded" => submissions'[i].status = "graded"
          /\ (runs'[i] # runs[i] /\ runs'[i].pc = "evaluating") =>
               /\ submissions[i].status \in {"pending", "error"}
               /\ runs[i].pc \in {"none", "done"}]_vars

\* C20 witness: a submission whose first evaluation ended in error was
\* evaluated again from the Evaluate button, went through the code analysis
\* and is graded, next to one that is still pending.
C20_Witness ==
  \E i, j \in DOMAIN runs :
    /\ runs[i].from = "error"
    /\ runs[i].pc = "done"
    /\ runs[i].analysis # "none"
    /\ submissions[i].status = "graded"
    /\ rendered = submissions
    /\ submissions[j].status = "pending"


\* C21: in every state a submission that is graded or analyzing_code holds
\* the value evaluateSubmission resolved with as its evaluation, and a
\* submission that is pending, evaluating or error holds none.
C21_EvaluationAttachedWhenGraded ==
  \A i \in DOMAIN submissions :
    /\ submissions[i].status \in Statuses
    /\ submissions[i].status \in {"graded", "analyzing_code"} =>
         /\ submissions[i].evaluation # NoResult
         /\ submissions[i].evaluation.kind \in {"object", "number"}
    /\ submissions[i].status \in {"pending", "evaluating", "error"} =>
         submissions[i].evaluation = NoResult

\* C21 witness: one submission is in
\* analyzing_code with its evaluation and the other is in error, with none,
\* after evaluateSubmission resolved for it with a scored document.
C21_Witness ==
  \E i, j \in DOMAIN runs :
    /\ Len(submissions) = Len(runs)
    /\ submissions[i].status = "analyzing_code"
    /\ submissions[i].evaluation.final_score = 8
    /\ submissions[j].status = "error"
    /\ runs[j].result.final_score = 8
    /\ submissions[j].evaluation = NoResult


\* ---------------------------------------------------------------------------
\* Termination of an evaluation, checked under SpecAppSettling.
\* ---------------------------------------------------------------------------

InProgress(i) ==
  /\ i \in DOMAIN submissions
  /\ submissions[i].status \in {"evaluating", "analyzing_code"}

Finished(i) ==
  /\ i \in DOMAIN submissions
  /\ submissions[i].status \in {"graded", "error"}

\* fetchGithubContent of the analysis of submission i is awaited.
RepositoryFetchPending(i) == i \in DOMAIN runs /\ runs[i].pc = "fetching"

\* C22, as the specification states it: with every model request settling, a
\* submission that is evaluating or analyzing_code is graded or in error in
\* the end.
C22_StartedEvaluationFinishes ==
  \A i \in 1..MaxSubmissions : InProgress(i) ~> Finished(i)

\* C22: with every model request settling, a submission that is evaluating
\* or analyzing_code is graded or in error in the end, unless the fetch of
\* the repository that analyzeCodeRepository awaits first never settles: then
\* the submission stays in analyzing_code.
C22_FinishesUnlessFetchHangs ==
  \A i \in 1..MaxSubmissions :
    InProgress(i) ~> (Finished(i) \/ [](RepositoryFetchPending(i) /\ InProgress(i)))

\* C22 witness: a submission is graded after its evaluation, the fetch of its
\* repository and its analysis have all settled, and another is in error.
C22_Witness ==
  \E i, j \in DOMAIN runs :
    /\ runs[i].pc = "done"
    /\ runs[i].analysis \in {"success", "failed"}
    /\ Finished(i)
    /\ submissions[i].status = "graded"
    /\ runs[j].pc = "done"
    /\ submissions[j].status = "error"


\* ---------------------------------------------------------------------------
\* The request of the code analysis, checked under SpecApp.
\* ---------------------------------------------------------------------------

\* analyzeCodeRepository was called in this call of runEvaluation.
AnalysisRequested(run) == run.pc \in {"fetching", "analyzing"} \/ run.analysis # "none"

\* The element at position k of external_links is a URL of one of the three hosts.
IsCodeUrlAt(r, k) ==
  /\ r.external_links.type = "array"
  /\ k \in 1..Len(r.external_links.items)
  /\ r.external_links.items[k].type = "string"
  /\ IsCodeLink(r.external_links.items[k].text)

HasCodeUrl(r) == \E k \in 1..Len(r.external_links.items) : IsCodeUrlAt(r, k)

\* link is the first such URL of external_links in list order.
IsFirstCodeUrl(r, link) ==
  \E k \in 1..Len(r.external_links.items) :
    /\ IsCodeUrlAt(r, k)
    /\ r.external_links.items[k].text = link
    /\ \A j \in 1..(k - 1) : ~IsCodeUrlAt(r, j)

\* C23, as the specification states it: the analysis is requested only after
\* evaluateSubmission resolved and for the first URL of external_links that
\* contains github.com, gitlab.com or colab.research.google.com, and it is
\* requested, with the status analyzing_code, exactly when external_links
\* holds such a URL.
C23_AnalysisExactlyForCodeUrl ==
  /\ RunsMatchSubmissions
  /\ \A i \in DOMAIN runs :
       /\ AnalysisRequested(runs[i]) =>
            /\ EvaluationSucceeded(runs[i])
            /\ IsFirstCodeUrl(runs[i].result, runs[i].link)
       /\ submissions[i].status = "analyzing_code" <=> runs[i].pc \in {"fetching", "analyzing"}
       /\ EvaluationSucceeded(runs[i]) =>
            (AnalysisRequested(runs[i]) <=> HasCodeUrl(runs[i].result))

\* Where C23 fails: external_links holds a github.com URL followed by a
\* number; no analysis was requested and the submission is in error.
C23_Witness ==
  \E i \in DOMAIN runs :
    /\ runs[i].pc = "done"
    /\ runs[i].result = DocumentEvaluation(ArrayLinks(<<StringItem(RepoLink), NumberItem>>))
    /\ HasCodeUrl(runs[i].result)
    /\ ~AnalysisRequested(runs[i])
    /\ submissions[i].status = "error"

\* What does hold: the analysis is requested only after evaluateSubmission
\* resolved and for the first code URL of external_links; when the link scan
\* completes it is requested exactly when external_links holds a code URL,
\* and when the scan throws it is not requested.
C23_HoldsWhenScanCompletes ==
  /\ RunsMatchSubmissions
  /\ \A i \in DOMAIN runs :
       /\ AnalysisRequested(runs[i]) =>
            /\ EvaluationSucceeded(runs[i])
            /\ IsFirstCodeUrl(runs[i].result, runs[i].link)
       /\ submissions[i].status = "analyzing_code" <=> runs[i].pc \in {"fetching", "analyzing"}
       /\ (EvaluationSucceeded(runs[i]) /\ ~LinkScanThrows(runs[i].result)) =>
            (AnalysisRequested(runs[i]) <=> HasCodeUrl(runs[i].result))
       /\ (EvaluationSucceeded(runs[i]) /\ LinkScanThrows(runs[i].result)) =>
            ~AnalysisRequested(runs[i])

\* An analysis was requested for the second element of external_links, the
\* first being no code URL, and another for the first of two code URLs.
C23_FirstCodeUrlAnalysed ==
  \E i, j \in DOMAIN runs :
    /\ runs[i].analysis # "none"
    /\ runs[i].link = LabLink
    /\ runs[i].result.external_links.items[1].text = DocLink
    /\ runs[j].pc = "analyzing"
    /\ runs[j].link = RepoLink
    /\ runs[j].result.external_links.items[2].text = LabLink


\* ---------------------------------------------------------------------------
\* App: the setup tab and handleGenerateRubric (src/unnamed/part_002, lines
\* 27-42, 63-80, 188, 248, 265, 271-272).
\* ---------------------------------------------------------------------------

Tabs == {"setup", "rubric", "grading", "results"}

\* What generateRubricFromText resolves with: null for the reply null, or a rubric.
GeneratedRubrics == {NoRubric, "criteria A", "criteria B"}

\* A button that stays enabled while a rubric is generated.
ButtonEnabledWhileGenerating(shown) == shown.rubricText \/ shown.questionText

\* The Generate button is enabled (line 272):
\* disabled={isGeneratingRubric || (!assignment.rubricText && !assignment.questionText)}.
ButtonEnabled(shown) ==
  /\ ~shown.isGeneratingRubric
  /\ shown.rubricText \/ shown.questionText

\* What the render shows of the state.
Shown(s, rubric) ==
  [rubricText |-> s.rubricText, questionText |-> s.questionText,
   structuredRubric |-> rubric, isGeneratingRubric |-> s.isGeneratingRubric]

\* The rest of the module while the setup tab is followed.
SetupOnly == UNCHANGED <<decoderVars, calls, submissions, rendered, runs>>

InitSetup ==
  /\ DecoderAtRest
  /\ AppAtRest
  /\ calls = <<>>

\* handleGenerateRubric up to its await (lines 63-66): nothing when both texts
\* of the closure are empty, else the flag is set, rendered with the click,
\* and generateRubricFromText is called.
StartGenerateRubric ==
  IF ~setup.shown.rubricText /\ ~setup.shown.questionText
  THEN /\ setup' = [setup EXCEPT !.last = [what |-> "skipped", rubric |-> NoRubric]]
       /\ UNCHANGED structuredRubric
  ELSE /\ setup' = [setup EXCEPT !.isGeneratingRubric = TRUE,
                                 !.inflight = setup.inflight + 1,
                                 !.last = [what |-> "started", rubric |-> NoRubric],
                                 !.shown = [setup.shown EXCEPT !.isGeneratingRubric = TRUE]]
       /\ UNCHANGED structuredRubric

\* onClick={handleGenerateRubric} of the enabled button (lines 271-272).
ClickGenerateRubric ==
  /\ ButtonEnabled(setup.shown)
  /\ StartGenerateRubric
  /\ SetupOnly

\* handleGenerateRubric called while both texts are empty, which the disabled
\* button keeps a click from doing: the test of line 64.
GenerateRubricWithoutText ==
  /\ ~setup.shown.rubricText /\ ~setup.shown.questionText
  /\ StartGenerateRubric
  /\ SetupOnly

\* generateRubricFromText resolves (lines 72-73, 78): the rubric is stored
\* with a functional update, the tab is set and the flag cleared.
RubricResolves ==
  /\ setup.inflight > 0
  /\ \E rubric \in GeneratedRubrics :
       /\ structuredRubric' = rubric
       /\ setup' = [setup EXCEPT !.activeTab = "rubric",
                                 !.isGeneratingRubric = FALSE,
                                 !.inflight = setup.inflight - 1,
                                 !.last = [what |-> "stored", rubric |-> rubric]]
  /\ SetupOnly

\* generateRubricFromText rejects (lines 74-78): console.error, alert, and
\* the flag is cleared.
RubricRejects ==
  /\ setup.inflight > 0
  /\ setup' = [setup EXCEPT !.isGeneratingRubric = FALSE,
                            !.inflight = setup.inflight - 1,
                            !.last = [what |-> "failed", rubric |-> NoRubric]]
  /\ UNCHANGED structuredRubric
  /\ SetupOnly

\* onChange of the question text (line 248):
\* setAssignment({...assignment, questionText: e.target.value}), the
\* assignment being the one of the last render; rendered with the keystroke.
EditQuestionText ==
  /\ \E filled \in BOOLEAN :
       setup' = [setup EXCEPT !.questionText = filled,
                              !.rubricText = setup.shown.rubricText,
                              !.shown = [setup.shown EXCEPT !.questionText = filled]]
  /\ structuredRubric' = setup.shown.structuredRubric
  /\ SetupOnly

\* onChange of the rubric text (line 265), in the same way.
EditRubricText ==
  /\ \E filled \in BOOLEAN :
       setup' = [setup EXCEPT !.rubricText = filled,
                              !.questionText = setup.shown.questionText,
                              !.shown = [setup.shown EXCEPT !.rubricText = filled]]
  /\ structuredRubric' = setup.shown.structuredRubric
  /\ SetupOnly

\* onClick={() => setActiveTab(tab.id)} of a tab (line 188).
SwitchTab ==
  /\ \E tab \in Tabs : setup' = [setup EXCEPT !.activeTab = tab]
  /\ UNCHANGED structuredRubric
  /\ SetupOnly

\* React renders the state queued by the continuation of handleGenerateRubric.
RenderSetup ==
  /\ setup.shown # Shown(setup, structuredRubric)
  /\ setup' = [setup EXCEPT !.shown = Shown(setup, structuredRubric)]
  /\ UNCHANGED structuredRubric
  /\ SetupOnly

NextSetup ==
  \/ ClickGenerateRubric
  \/ GenerateRubricWithoutText
  \/ RubricResolves
  \/ RubricRejects
  \/ EditQuestionText
  \/ EditRubricText
  \/ SwitchTab
  \/ RenderSetup

SpecSetup == InitSetup /\ [][NextSetup]_vars


\* ---------------------------------------------------------------------------
\* C24: the effects of handleGenerateRubric.
\* ---------------------------------------------------------------------------

\* This step is a call of handleGenerateRubric that finds both texts empty.
ReturnsEarly == setup'.last.what = "skipped" /\ setup.last.what # "skipped"

\* This step is the completion of a request for a rubric.
RequestCompletes == setup'.inflight < setup.inflight

\* The effects of the steps of handleGenerateRubric on the state of App.
GenerateRubricStep ==
  /\ ReturnsEarly =>
       /\ structuredRubric' = structuredRubric
       /\ setup' = [setup EXCEPT !.last = setup'.last]
  /\ setup'.inflight > setup.inflight => setup'.isGeneratingRubric
  /\ RequestCompletes /\ setup'.last.what = "failed" =>
       /\ structuredRubric' = structuredRubric
       /\ setup'.activeTab = setup.activeTab
       /\ ~setup'.isGeneratingRubric
  /\ RequestCompletes /\ setup'.last.what = "stored" =>
       /\ structuredRubric' = setup'.last.rubric
       /\ setup'.activeTab = "rubric"
       /\ ~setup'.isGeneratingRubric

\* C24: handleGenerateRubric changes nothing when both the rubric text and the
\* question text are empty; otherwise isGeneratingRubric is true exactly while
\* the request is in flight and false once it has completed; a failed request
\* leaves structuredRubric and the active tab as they are, a successful one
\* stores the rubric and makes 'rubric' the active tab.
C24_GenerateRubricEffects ==
  /\ [](setup.isGeneratingRubric <=> setup.inflight > 0)
  /\ [][GenerateRubricStep]_vars

\* A request has failed after an earlier one had stored a rubric and the user
\* had returned to the setup tab: the rubric and the tab are still there.
C24_Witness ==
  /\ setup.last.what = "failed"
  /\ structuredRubric = "criteria B"
  /\ setup.activeTab = "setup"
  /\ ~setup.isGeneratingRubric
  /\ setup.inflight = 0


\* ---------------------------------------------------------------------------
\* fetchGithubContent on its own (src/services/geminiService.ts, lines 407-430).
\* ---------------------------------------------------------------------------

GitlabHost == <<"g", "i", "t", "l", "a", "b", ".", "c", "o", "m">>

\* The links fetchGithubContent is followed with: a file, a repository and a
\* directory on github.com, links with '/blob/' and '/tree/' together, with
\* '/blob/' twice, with 'github.com' twice or away from the host, with a
\* prefix to the host, with a final '/' or a final '/blob', and links of
\* another host.
FetchUrls ==
  RepoUrls \cup
  { Https \o GithubHost \o <<"/", "u", "/", "r">>,
    Https \o GithubHost \o <<"/", "u", "/", "r">> \o TreeSegment \o <<"m">>,
    Https \o GithubHost \o <<"/", "u", "/", "r">> \o BlobSegment \o <<"m">> \o TreeSegment \o <<"a">>,
    Https \o GithubHost \o <<"/", "u", "/", "r">> \o BlobSegment \o <<"m">> \o BlobSegment \o <<"a">>,
    Https \o GithubHost \o <<"/", "u", "/", "r", "/", "b", "l", "o", "b">>,
    Https \o GithubHost \o <<"/">> \o GithubHost \o <<"/", "r">>,
    Https \o <<"w", "w", "w", ".">> \o GithubHost \o <<"/", "u", "/", "r", "/">>,
    Https \o GitlabHost \o <<"/", "u", "/", "r">>,
    Https \o GitlabHost \o <<"/", "u", "/", "r">> \o BlobSegment \o <<"m", "/", "a">>,
    Https \o GitlabHost \o <<"/", "u", "/">> \o GithubHost }

InitFetch ==
  /\ DecoderAtRest
  /\ AppAtRest
  /\ calls \in [CallIds -> { NewCall("analysis", u) : u \in FetchUrls }]

NextFetch == \E c \in CallIds : FetchGithubContent(c)

SpecFetch == InitFetch /\ [][NextFetch]_vars


\* ---------------------------------------------------------------------------
\* C25: the URL fetchGithubContent fetches and what it returns.
\* ---------------------------------------------------------------------------

\* The position of the first occurrence of p in s.
FirstAt(s, p) ==
  CHOOSE i \in 1..Len(s) :
    MatchesAt(s, i, p) /\ \A j \in 1..(i - 1) : ~MatchesAt(s, j, p)

\* s with its first occurrence of p cut out and q put in its place.
Splice(s, p, q) ==
  SubSeq(s, 1, FirstAt(s, p) - 1) \o q \o SubSeq(s, FirstAt(s, p) + Len(p), Len(s))

\* The URL the claim has fetched for url.
ExpectedRawUrl(url) ==
  IF Contains(url, GithubHost) /\ Contains(url, BlobSegment)
  THEN Splice(Splice(url, GithubHost, RawHost), BlobSegment, <<"/">>)
  ELSE IF Contains(url, GithubHost) /\ ~Contains(url, TreeSegment)
  THEN Splice(url, GithubHost, RawHost) \o MainReadme
  ELSE url

\* C25: fetchGithubContent fetches a URL with github.com and '/blob/' in it
\* from raw.githubusercontent.com in place of github.com and with '/' in place
\* of '/blob/', a URL with github.com and neither '/blob/' nor '/tree/' from
\* the raw host with '/main/README.md' added, every other URL as it is; it
\* returns the body of an OK response, "" for a response that is not OK or a
\* fetch that throws, and throws nothing itself.
C25_FetchesRawUrl ==
  \A c \in CallIds :
    /\ calls[c].pc \in {"idle", "ready"}
    /\ calls[c].cause = ""
    /\ calls[c].pc = "ready" =>
         /\ calls[c].fetched = ExpectedRawUrl(calls[c].url)
         /\ calls[c].fetch = "ok" => calls[c].context = "README"
         /\ calls[c].fetch \in {"notok", "throws"} => calls[c].context = ""

\* A link with '/blob/' twice has been fetched with the first one removed and
\* the body returned, and a link to a repository of another host whose path
\* names github.com has been fetched from the README guessed for it.
C25_Witness ==
  \E c, d \in CallIds :
    /\ calls[c].pc = "ready"
    /\ calls[c].url =
         Https \o GithubHost \o <<"/", "u", "/", "r">> \o BlobSegment \o <<"m">> \o BlobSegment \o <<"a">>
    /\ calls[c].fetched =
         Https \o RawHost \o <<"/", "u", "/", "r", "/", "m">> \o BlobSegment \o <<"a">>
    /\ calls[c].fetch = "ok"
    /\ calls[c].context = "README"
    /\ calls[d].pc = "ready"
    /\ calls[d].url = Https \o GitlabHost \o <<"/", "u", "/">> \o GithubHost
    /\ calls[d].fetched = Https \o GitlabHost \o <<"/", "u", "/">> \o RawHost \o MainReadme
    /\ calls[d].fetch = "throws"
    /\ calls[d].context = ""


\* ---------------------------------------------------------------------------
\* checkFacts on its own (src/services/geminiService.ts, lines 530-553).
\* Calls of checkFacts share no state; one call is followed.
\* ---------------------------------------------------------------------------

\* Most grounding chunks in a reply.
MaxChunks == 2

FactQueries == { <<"2", "+", "2", "=", "4", "?">>, <<>> }

\* response.text of a reply to checkFacts: a text, or none.
FactTexts == { <<"y", "e", "s">>, <<>> }

\* Chunks with a URI and a title, without a title, with an empty title,
\* without a URI, with an empty URI, and a chunk without the member web.
GroundingChunks ==
  { WebChunk(StringField("https://a.org"), StringField("A")),
    WebChunk(StringField("https://b.org"), MissingField),
    WebChunk(StringField("https://c.org"), StringField("")),
    WebChunk(MissingField, StringField("D")),
    WebChunk(StringField(""), StringField("E")),
    ContextChunk }

RECURSIVE ChunkLists(_)
ChunkLists(n) ==
  IF n = 0 THEN {<<>>}
  ELSE ChunkLists(n - 1) \cup
         { Append(l, c) : l \in { k \in ChunkLists(n - 1) : Len(k) = n - 1 }, c \in GroundingChunks }

Groundings ==
  {AbsentGrounding, ObjectGrounding} \cup { ArrayGrounding(l) : l \in ChunkLists(MaxChunks) }

InitFacts ==
  /\ DecoderAtRest
  /\ AppAtRest
  /\ calls \in [{1} -> { [NewCall("factcheck", <<>>) EXCEPT !.query = q] : q \in FactQueries }]

\* generateContent resolves and checkFacts returns (lines 538-552).
CheckFactsReturns == PassesReplyOnWith(1, FactTexts, Groundings)

NextFacts ==
  \/ IssueModelRequest(1)
  \/ ModelCallFails(1)
  \/ CheckFactsReturns

SpecFacts == InitFacts /\ [][NextFacts]_vars

\* ---------------------------------------------------------------------------
\* C26: what checkFacts returns.
\* ---------------------------------------------------------------------------

\* Chunk i of the reply has a web URI that is not empty.
HasWebUri(items, i) ==
  items[i].web /\ items[i].uri.type = "string" /\ items[i].uri.chars # ""

\* How many of the first i chunks have one.
WebUrisUpTo(items, i) == Cardinality({ j \in 1..i : HasWebUri(items, j) })

\* The list is made of the chunks with a web URI, in their order, each with
\* its title, or 'Source' when it has none.
ListsWebChunks(sources, items) ==
  /\ Len(sources) = WebUrisUpTo(items, Len(items))
  /\ \A i \in 1..Len(items) :
       HasWebUri(items, i) =>
         /\ sources[WebUrisUpTo(items, i)].uri = items[i].uri.chars
         /\ sources[WebUrisUpTo(items, i)].title =
              IF items[i].title.type = "string" /\ items[i].title.chars # ""
              THEN items[i].title.chars
              ELSE "Source"

\* C26: checkFacts returns the query as it was given, as sources the grounding
\* chunks with a web URI that is not empty, in their order, each with its
\* title or 'Source' when it has none (no sources when the grounding chunks
\* are absent or no array), and the text of the response, or
\* 'No information found.' when there is none.
C26_ReturnsGroundedSources ==
  calls[1].pc = "returned" =>
    /\ calls[1].facts.query = calls[1].query
    /\ calls[1].facts.text = IF calls[1].text = <<>> THEN NoInformationFound ELSE calls[1].text
    /\ IF calls[1].grounding.type = "array"
       THEN ListsWebChunks(calls[1].facts.sources, calls[1].grounding.items)
       ELSE calls[1].facts.sources = <<>>

\* A reply without text whose first chunk has no URI and whose second has a
\* URI and no title: one source, titled 'Source', and the text of line 551.
C26_Witness ==
  /\ calls[1].pc = "returned"
  /\ calls[1].query = <<"2", "+", "2", "=", "4", "?">>
  /\ calls[1].text = <<>>
  /\ calls[1].grounding =
       ArrayGrounding(<<WebChunk(MissingField, StringField("D")),
                        WebChunk(StringField("https://b.org"), MissingField)>>)
  /\ calls[1].facts =
       [query |-> <<"2", "+", "2", "=", "4", "?">>,
        sources |-> <<[uri |-> "https://b.org", title |-> "Source"]>>,
        text |-> NoInformationFound]

====
